---- MODULE Spec2Model ----
(***************************************************************************)
(* Dispatcher (AgentOrchestrator.handleProcess) and hybrid memory store    *)
(* (MemoryManager) of the JARVIS assistant.                                *)
(*                                                                         *)
(* MEMORY_KV is the fast-path cache, CONVERSATIONS_DB the durable store.   *)
(* Every `await` on KV, D1 or the LLM is a point where another request     *)
(* may run: a Durable Object only gates its own storage API, and           *)
(* handleProcess uses none, so calls on one conversation interleave at     *)
(* these points.  Each store operation either succeeds or rejects.         *)
(***************************************************************************)
EXTENDS Integers, Sequences, FiniteSets, TLC

(* ---------------- bounds of the model ---------------- *)
MaxCalls == 2
MaxFaults == 1
MaxExpiries == 1

(* ---------------- program constants ---------------- *)
MaxEntries == 10
SummaryMin == 3
SummaryWindow == 5
SummaryMaxLen == 200

Convs == {"c1", "c2"}
\* the users the router authenticates
Users == {"u1", "u2"}
Calls == 1..MaxCalls

None == "none"
\* null, or no entry under the key
Absent == [absent |-> TRUE]
Undefined == "undefined"

(* ---------------- text ---------------- *)
\* String.prototype.toLowerCase on the characters the model uses
ToLowerChar(ch) ==
  CASE ch = "F" -> "f"
    [] ch = "R" -> "r"
    [] ch = "D" -> "d"
    [] ch = "I" -> "i"
    [] ch = "N" -> "n"
    [] ch = "Y" -> "y"
    [] OTHER -> ch

ToLower(s) == [k \in 1..Len(s) |-> ToLowerChar(s[k])]

\* String.prototype.includes
Includes(s, sub) ==
  \E k \in 0..(Len(s) - Len(sub)) :
    \A j \in 1..Len(sub) : s[k + j] = sub[j]

\* String.prototype.substring(0, n)
Substring(s, n) == IF Len(s) > n THEN SubSeq(s, 1, n) ELSE s

\* Array.prototype.join(' ')
RECURSIVE Join(_)
Join(ss) ==
  IF Len(ss) = 0 THEN << >>
  ELSE IF Len(ss) = 1 THEN ss[1]
  ELSE ss[1] \o <<" ">> \o Join(Tail(ss))

\* Array.prototype.slice(-n)
SliceLast(s, n) == IF Len(s) > n THEN SubSeq(s, Len(s) - n + 1, Len(s)) ELSE s

\* request contents used by the calls of the model
HiText == <<"h", "i">>
FindText == <<"F", "i", "n", "d">>
RunText == <<"r", "u", "n">>
Contents == {HiText, FindText, RunText}

(* ---------------- JSON ---------------- *)
\* JSON.stringify drops the properties whose value is undefined (the values of
\* a metadata object are kept as text)
DropUndefined(r) ==
  LET keep == {k \in DOMAIN r : r[k] # Undefined}
  IN [k \in keep |-> r[k]]

StringifyEntry(e) == [e EXCEPT !.metadata = DropUndefined(e.metadata)]

\* a serialisation that writes the newest entry first
StringifyEntriesNewestFirst(es) ==
  [k \in 1..Len(es) |-> StringifyEntry(es[Len(es) + 1 - k])]

\* JSON.stringify(memory.recentInteractions), lines 116 and 131
StringifyEntries(es) == [k \in 1..Len(es) |-> StringifyEntry(es[k])]

Stringify(m) ==
  [json |-> [m EXCEPT !.recentInteractions = StringifyEntries(m.recentInteractions)]]

Parse(text) == text.json

(* ---------------- MemoryManager: pure parts ---------------- *)
EmptySummary == << >>

\* a summary over every retained entry instead of the last 5
generateSummaryAllEntries(interactions) ==
  LET recentTopics == Join([k \in 1..Len(interactions) |-> interactions[k].userInput])
  IN <<"Recent conversation topics: ">> \o Substring(recentTopics, SummaryMaxLen) \o <<"...">>

\* generateSummary, lines 139-147
generateSummary(interactions) ==
  LET recent == SliceLast(interactions, SummaryWindow)
      recentTopics == Join([k \in 1..Len(recent) |-> recent[k].userInput])
  IN <<"Recent conversation topics: ">> \o Substring(recentTopics, SummaryMaxLen) \o <<"...">>

\* a fresh aggregate that takes the conversation id for the user id
FreshMemoryOfConversation(c, now) ==
  [conversationId |-> c, userId |-> c, recentInteractions |-> << >>,
   summary |-> EmptySummary, context |-> "{}", lastUpdated |-> now]

\* updateMemory lines 72-79: the aggregate of a conversation get found absent
FreshMemory(c, now) ==
  [conversationId |-> c, userId |-> "unknown", recentInteractions |-> << >>,
   summary |-> EmptySummary, context |-> "{}", lastUpdated |-> now]

\* slice(0, 10) in place of slice(-10): the newest entries are dropped
TrimKeepsOldest(entries) ==
  IF Len(entries) > MaxEntries THEN SubSeq(entries, 1, MaxEntries) ELSE entries

\* updateMemory lines 90-93
Trim(entries) ==
  IF Len(entries) > MaxEntries THEN SliceLast(entries, MaxEntries) ELSE entries

\* a push that summarises only above 3 entries
PushedSummarisesLater(memory, newEntry, now) ==
  LET entries == Trim(Append(memory.recentInteractions, newEntry))
  IN [memory EXCEPT !.recentInteractions = entries,
                    !.summary = IF Len(entries) > SummaryMin
                                THEN generateSummary(entries)
                                ELSE memory.summary,
                    !.lastUpdated = now]

\* updateMemory lines 81-100: push, trim, summary, stamp
Pushed(memory, newEntry, now) ==
  LET entries == Trim(Append(memory.recentInteractions, newEntry))
  IN [memory EXCEPT !.recentInteractions = entries,
                    !.summary = IF Len(entries) >= SummaryMin
                                THEN generateSummary(entries)
                                ELSE memory.summary,
                    !.lastUpdated = now]

\* the row bound by updateD1Memory
ToRow(c, memory) ==
  [id |-> c, user_id |-> memory.userId,
   recent_interactions |-> [json |-> StringifyEntries(memory.recentInteractions)],
   summary |-> memory.summary, context |-> [json |-> memory.context],
   last_updated |-> memory.lastUpdated]

\* the aggregate getConversationMemory builds from a row
FromRow(row) ==
  [conversationId |-> row.id, userId |-> row.user_id,
   recentInteractions |-> Parse(row.recent_interactions),
   summary |-> row.summary, context |-> Parse(row.context),
   lastUpdated |-> row.last_updated]

(* ---------------- strategies ---------------- *)
Malformed == "malformed body"

LlmFault == "Failed to generate response: provider error"
JsonFault == "Unexpected end of JSON input"
KvFault == "KV PUT failed"
D1Fault == "D1_ERROR"

Completion == "completion"

Includes3(content, a, b, c) ==
  Includes(content, a) \/ Includes(content, b) \/ Includes(content, c)

\* a selection that tests the task keywords before the research keywords
selectAgentTaskFirst(request) ==
  LET content == ToLower(request.content)
  IN IF request.type = "task"
        \/ Includes3(content, <<"d","o">>, <<"e","x","e","c","u","t","e">>, <<"r","u","n">>)
     THEN "task"
     ELSE IF request.type = "research"
        \/ Includes3(content, <<"s","e","a","r","c","h">>, <<"f","i","n","d">>,
                     <<"r","e","s","e","a","r","c","h">>)
     THEN "research"
     ELSE "reasoning"

\* selectAgent, lines 361-388
selectAgent(request) ==
  LET content == ToLower(request.content)
  IN IF request.type = "research"
        \/ Includes3(content, <<"s","e","a","r","c","h">>, <<"f","i","n","d">>,
                     <<"r","e","s","e","a","r","c","h">>)
     THEN "research"
     ELSE IF request.type = "task"
        \/ Includes3(content, <<"d","o">>, <<"e","x","e","c","u","t","e">>, <<"r","u","n">>)
     THEN "task"
     ELSE IF request.type = "reasoning"
        \/ Includes3(content, <<"a","n","a","l","y","z","e">>, <<"t","h","i","n","k">>,
                     <<"r","e","a","s","o","n">>)
     THEN "reasoning"
     ELSE "reasoning"

AgentApology(agent) ==
  CASE agent = "research" ->
         "I encountered an error while researching your request. Please try again."
    [] agent = "task" ->
         "I encountered an error while executing your task. Please try again."
    [] OTHER ->
         "I encountered an error while processing your request. Please try again."

OrchestratorApology ==
  "I encountered an error processing your request. Please try again."

\* the metadata of a strategy's successful response; usage is the provider's
\* token count, undefined when the provider reports none
AgentMetadata(agent, usage) ==
  CASE agent = "research" ->
         [searchQueries |-> "queries", sourcesFound |-> "count",
          synthesisModel |-> "gpt-4-turbo-preview"]
    [] agent = "task" ->
         [taskType |-> "general", complexity |-> "medium", stepsExecuted |-> "steps"]
    [] OTHER ->
         [model |-> "gpt-4-turbo-preview", tokensUsed |-> usage,
          reasoning |-> "Applied logical analysis and contextual understanding"]

\* process of the three strategies: the try block's result, or the catch block's
AgentProcess(agent, llm) ==
  IF llm = "fault"
  THEN [success |-> FALSE, content |-> AgentApology(agent), agentUsed |-> agent,
        executionTime |-> 0, metadata |-> [error |-> LlmFault]]
  ELSE [success |-> TRUE, content |-> Completion, agentUsed |-> agent,
        executionTime |-> 0,
        metadata |-> AgentMetadata(agent, IF llm = "ok" THEN "42" ELSE Undefined)]

processWithAgent(agentType, llm) ==
  CASE agentType = "research" -> AgentProcess("research", llm)
    [] agentType = "task" -> AgentProcess("task", llm)
    [] OTHER -> AgentProcess("reasoning", llm)

\* the catch block of handleProcess
OrchestratorError(message) ==
  [success |-> FALSE, content |-> OrchestratorApology, agentUsed |-> "orchestrator",
   executionTime |-> 0, error |-> message]

\* a settle in which the cache write's success resolves the pair
PromiseAllCacheFirst(kvw, dbw) ==
  IF kvw = "ok" THEN "resolved"
  ELSE IF kvw = "fail" \/ dbw = "fail" THEN "rejected"
  ELSE "pending"

\* Promise.all over the cache write and the durable write
PromiseAll(kvw, dbw) ==
  IF kvw = "fail" \/ dbw = "fail" THEN "rejected"
  ELSE IF kvw = "ok" /\ dbw = "ok" THEN "resolved"
  ELSE "pending"

\* the rejection Promise.all carries: that of the write that failed first
Rejection(cl, kvw, dbw) ==
  IF cl.kvw # "fail" /\ kvw = "fail" THEN KvFault ELSE D1Fault

(* ---------------- text of completions ---------------- *)
Whitespace == {" ", "\n"}

\* s.trim().length > 0 is false
IsBlank(s) == \A k \in 1..Len(s) : s[k] \in Whitespace

\* String.prototype.trim
TrimText(s) ==
  IF IsBlank(s) THEN << >>
  ELSE LET first == CHOOSE a \in 1..Len(s) :
                      s[a] \notin Whitespace /\ \A b \in 1..(a - 1) : s[b] \in Whitespace
           final == CHOOSE a \in 1..Len(s) :
                      s[a] \notin Whitespace /\ \A b \in (a + 1)..Len(s) : s[b] \in Whitespace
       IN SubSeq(s, first, final)

\* String.prototype.split on a one-character separator
RECURSIVE Split(_, _)
Split(s, sep) ==
  IF \A k \in 1..Len(s) : s[k] # sep THEN <<s>>
  ELSE LET at == CHOOSE a \in 1..Len(s) : s[a] = sep /\ \A b \in 1..(a - 1) : s[b] # sep
       IN <<SubSeq(s, 1, at - 1)>> \o Split(SubSeq(s, at + 1, Len(s)), sep)

\* Array.prototype.filter(x => x.trim().length > 0)
RECURSIVE NonBlank(_)
NonBlank(ss) ==
  IF ss = << >> THEN << >>
  ELSE IF IsBlank(Head(ss)) THEN NonBlank(Tail(ss))
  ELSE <<Head(ss)>> \o NonBlank(Tail(ss))

\* Array.prototype.slice(0, n)
SliceFirst(ss, n) == IF Len(ss) > n THEN SubSeq(ss, 1, n) ELSE ss

\* [...new Set(ss)]: the first occurrence of each element, in order
Distinct(ss) ==
  LET firsts == {k \in 1..Len(ss) : \A j \in 1..(k - 1) : ss[j] # ss[k]}
      Rank(k) == Cardinality({j \in firsts : j <= k})
  IN [r \in 1..Cardinality(firsts) |-> ss[CHOOSE k \in firsts : Rank(k) = r]]

\* the word occurs in s at position p (from 1)
OccursAt(s, p, word) ==
  /\ p + Len(word) - 1 <= Len(s)
  /\ \A j \in 1..Len(word) : s[p + j - 1] = word[j]

Least(S) == CHOOSE a \in S : \A b \in S : a <= b

\* A pattern g1.*?g2...: groups of alternatives separated by lazy gaps.
\* MatchAt is the position after the match that starts at p, 0 when there is
\* none; the alternatives are tried in order, a gap takes as few characters as
\* lets the rest match and holds no line break.
RECURSIVE MatchAt(_, _, _)
RECURSIVE AfterGap(_, _, _)
MatchAt(s, p, groups) ==
  LET alts == Head(groups)
      End(a) == IF ~OccursAt(s, p, alts[a]) THEN 0
                ELSE IF Len(groups) = 1 THEN p + Len(alts[a])
                ELSE AfterGap(s, p + Len(alts[a]), Tail(groups))
      ok == {a \in 1..Len(alts) : End(a) # 0}
  IN IF ok = {} THEN 0 ELSE End(Least(ok))

AfterGap(s, from, groups) ==
  LET starts == {q \in from..Len(s) :
                   /\ \A k \in from..(q - 1) : s[k] # "\n"
                   /\ MatchAt(s, q, groups) # 0}
  IN IF starts = {} THEN 0 ELSE MatchAt(s, Least(starts), groups)

\* RegExp.prototype.test of a /gi pattern: the search starts at lastIndex, a
\* match leaves lastIndex after it, a failure resets lastIndex to 0
Test(s, lastIndex, groups) ==
  LET low == ToLower(s)
      starts == {p \in (lastIndex + 1)..Len(low) : MatchAt(low, p, groups) # 0}
  IN IF starts = {} THEN [matched |-> FALSE, lastIndex |-> 0]
     ELSE [matched |-> TRUE, lastIndex |-> MatchAt(low, Least(starts), groups) - 1]

(* ---------------- the LLM and its completions ---------------- *)
\* JSON.parse of a completion: what the text parses to, NotJson when it throws
NotJson == [kind |-> "not json"]
JsonNull == [kind |-> "null"]
JsonObject(fields) == [kind |-> "object", fields |-> fields]

\* generateResponse rejected
LlmRejected == [fault |-> TRUE]

\* generateResponse resolved with a completion
Completed(content, json) ==
  [fault |-> FALSE, content |-> content, json |-> json, tokensUsed |-> "42"]

PlainText == <<"d", "o", "n", "e">>

\* the response of the catch block of a strategy's process
Failed(agent, message) ==
  [success |-> FALSE, content |-> AgentApology(agent), agentUsed |-> agent,
   executionTime |-> 0, metadata |-> [error |-> message]]

(* ---------------- ReasoningAgent ---------------- *)
\* ReasoningAgent.process, lines 160-196
ReasoningProcess(request, llm) ==
  IF llm.fault THEN Failed("reasoning", LlmFault)
  ELSE [success |-> TRUE, content |-> llm.content, agentUsed |-> "reasoning",
        executionTime |-> 0,
        metadata |-> [model |-> "gpt-4-turbo-preview", tokensUsed |-> llm.tokensUsed,
                      reasoning |-> "Applied logical analysis and contextual understanding"]]

(* ---------------- SearchService ---------------- *)
MaxResults == 5

Placeholder(query) ==
  [title |-> <<"Search results for: ">> \o query, url |-> "#",
   snippet |-> "I apologize, but I'm currently unable to perform web searches. This feature requires additional API configuration.",
   source |-> "System", relevanceScore |-> "0.1"]

\* a promise settles: resolved with a value, or rejected with a reason
Resolved(value) == [rejected |-> FALSE, value |-> value]
Rejected(reason) == [rejected |-> TRUE, reason |-> reason]

\* outcomes of the fetch of the first provider (part_004 lines 21-22): an
\* abstract, nothing usable, a body that is JSON null, a rejected fetch
PrimaryOutcomes == {"abstract", "empty", "null", "fault"}

\* outcomes of the fetch of the second provider (lines 72-82): results, a body
\* without results, a status that is not ok, a result whose url does not
\* parse, a rejected fetch
FallbackOutcomes == {"results", "none", "status", "malformed", "fault"}

\* the outcomes that leave the try block of fallbackSearch (lines 78-80, 88, 72)
FallbackThrows(fallback) == fallback \in {"status", "malformed", "fault"}

SearchFault == "Search API error: 500"

\* a fallbackSearch whose catch block rethrows
fallbackSearchUncaught(query, fallback) ==
  IF FallbackThrows(fallback) THEN Rejected(SearchFault)
  ELSE IF fallback = "none" THEN Resolved(<< >>)
  ELSE Resolved(
        <<[title |-> "Search Result", url |-> "https://a.example/1", snippet |-> "s1",
           source |-> "a.example", relevanceScore |-> "0.5"],
          [title |-> "Search Result", url |-> "https://a.example/2", snippet |-> "s2",
           source |-> "a.example", relevanceScore |-> "0.5"]>>)

\* fallbackSearch, lines 64-103: the second provider's results or the placeholder
fallbackSearch(query, fallback) ==
  IF FallbackThrows(fallback) THEN Resolved(<<Placeholder(query)>>)
  ELSE IF fallback = "none" THEN Resolved(<< >>)
  ELSE Resolved(
        <<[title |-> "Search Result", url |-> "https://a.example/1", snippet |-> "s1",
           source |-> "a.example", relevanceScore |-> "0.5"],
          [title |-> "Search Result", url |-> "https://a.example/2", snippet |-> "s2",
           source |-> "a.example", relevanceScore |-> "0.5"]>>)

\* search, lines 18-62: the first provider's abstract; the fallback when the
\* first provider gave no result (53-55) or the try block was left (58-61)
search(query, primary, fallback) ==
  IF primary = "abstract"
  THEN Resolved(SliceFirst(<<[title |-> "Search Result", url |-> "#",
                              snippet |-> "abstract", source |-> "DuckDuckGo",
                              relevanceScore |-> "0.9"]>>, MaxResults))
  ELSE fallbackSearch(query, fallback)

\* Array.prototype.flat
RECURSIVE Flat(_)
Flat(lists) == IF lists = << >> THEN << >> ELSE Head(lists) \o Flat(Tail(lists))

(* ---------------- ResearchAgent ---------------- *)
MaxFollowUps == 3

\* the prompt of extractSearchQueries asks for 1-3 queries
MaxQueries == 3

ActionKeywords ==
  {<<"s", "u", "g", "g", "e", "s", "t">>, <<"r", "e", "c", "o", "m", "m", "e", "n", "d">>, <<"c", "o", "u", "l", "d", " ", "a", "l", "s", "o">>, <<"m", "i", "g", "h", "t", " ", "w", "a", "n", "t", " ", "t", "o">>, <<"c", "o", "n", "s", "i", "d", "e", "r">>}

RECURSIVE KeywordSentences(_)
KeywordSentences(ss) ==
  IF ss = << >> THEN << >>
  ELSE IF \E w \in ActionKeywords : Includes(ToLower(Head(ss)), w)
  THEN <<Head(ss)>> \o KeywordSentences(Tail(ss))
  ELSE KeywordSentences(Tail(ss))

\* ResearchAgent.extractFollowUpActions, part_005 lines 159-172
ResearchFollowUps(content) ==
  LET sentences == NonBlank(Split(content, "."))
      kept == KeywordSentences(sentences)
  IN SliceFirst([k \in 1..Len(kept) |-> TrimText(kept[k])], MaxFollowUps)

\* extractSearchQueries, part_005 line 104
SearchQueries(content) == NonBlank(Split(content, "\n"))

\* part_005 lines 48-51: Promise.all over the searches of the queries
Searches(extraction, primary, fallback) ==
  LET searchQueries == SearchQueries(extraction.content)
  IN [k \in 1..Len(searchQueries) |-> search(searchQueries[k], primary, fallback)]

SearchRejected(extraction, primary, fallback) ==
  \E k \in 1..Len(Searches(extraction, primary, fallback)) :
    Searches(extraction, primary, fallback)[k].rejected

\* part_005 lines 60-71: the response of a research that went through
ResearchSucceeded(extraction, primary, fallback, synthesis) ==
  LET searchQueries == SearchQueries(extraction.content)
      searches == Searches(extraction, primary, fallback)
      searchResults == [k \in 1..Len(searches) |-> searches[k].value]
      followUpActions == ResearchFollowUps(synthesis.content)
      response ==
        [success |-> TRUE, content |-> synthesis.content,
         agentUsed |-> "research", executionTime |-> 0,
         metadata |-> [searchQueries |-> searchQueries,
                       sourcesFound |-> Len(Flat(searchResults)),
                       synthesisModel |-> "gpt-4-turbo-preview"]]
  IN IF Len(followUpActions) > 0
     THEN response @@ [followUpActions |-> followUpActions]
     ELSE response

\* a process whose synthesis step is outside the try block
ResearchProcessUncaught(request, extraction, primary, fallback, synthesis) ==
  IF extraction.fault THEN Failed("research", LlmFault)
  ELSE IF SearchRejected(extraction, primary, fallback) THEN Failed("research", SearchFault)
  ELSE IF synthesis.fault THEN [threw |-> LlmFault]
  ELSE ResearchSucceeded(extraction, primary, fallback, synthesis)

\* ResearchAgent.process, part_005 lines 43-82
ResearchProcess(request, extraction, primary, fallback, synthesis) ==
  IF extraction.fault THEN Failed("research", LlmFault)
  ELSE IF SearchRejected(extraction, primary, fallback) THEN Failed("research", SearchFault)
  ELSE IF synthesis.fault THEN Failed("research", LlmFault)
  ELSE ResearchSucceeded(extraction, primary, fallback, synthesis)

(* ---------------- TaskAgent ---------------- *)
NextPattern == <<<<<<"n", "e", "x", "t">>>>, <<<<"s", "t", "e", "p">>, <<"a", "c", "t", "i", "o", "n">>, <<"t", "a", "s", "k">>>>>>
YouPattern ==
  <<<<<<"y", "o", "u">>>>, <<<<"m", "i", "g", "h", "t">>, <<"c", "o", "u", "l", "d">>, <<"s", "h", "o", "u", "l", "d">>>>, <<<<"w", "a", "n", "t">>, <<"n", "e", "e", "d">>, <<"c", "o", "n", "s", "i", "d", "e", "r">>>>>>
RecommendPattern == <<<<<<"r", "e", "c", "o", "m", "m", "e", "n", "d">>, <<"s", "u", "g", "g", "e", "s", "t">>>>, <<<<"t", "o">>, <<"t", "h", "a", "t">>>>>>
ActionPatterns == <<NextPattern, YouPattern, RecommendPattern>>

\* the forEach loops of lines 135-141 from sentence k, pattern j on: each test
\* moves its pattern's lastIndex, a sentence is pushed while fewer than 3 are held
RECURSIVE Scan(_, _, _, _, _)
Scan(sentences, k, j, lastIndex, actions) ==
  IF k > Len(sentences) THEN actions
  ELSE LET t == Test(sentences[k], lastIndex[j], ActionPatterns[j])
           pushed == IF t.matched /\ Len(actions) < MaxFollowUps
                     THEN Append(actions, TrimText(sentences[k])) ELSE actions
           moved == [lastIndex EXCEPT ![j] = t.lastIndex]
       IN IF j < Len(ActionPatterns)
          THEN Scan(sentences, k, j + 1, moved, pushed)
          ELSE Scan(sentences, k + 1, 1, moved, pushed)

\* TaskAgent.extractFollowUpActions, lines 124-144
TaskFollowUps(content) ==
  Distinct(Scan(NonBlank(Split(content, ".")), 1, 1,
                [j \in 1..Len(ActionPatterns) |-> 0], << >>))

DefaultSteps == <<"Analyze request", "Process information", "Provide response">>

DefaultAnalysis ==
  JsonObject([type |-> "general", complexity |-> "medium", steps |-> DefaultSteps,
              requirements |-> << >>])

\* analyzeTask, lines 71-81: JSON.parse, the default when it throws
analyzeTask(classification) ==
  IF classification.json = NotJson THEN DefaultAnalysis ELSE classification.json

\* analysis.type and analysis.complexity: undefined when the object has none
Property(analysis, key) ==
  IF key \in DOMAIN analysis.fields THEN analysis.fields[key] ELSE Undefined

\* analysis.steps || []
StepsOf(analysis) ==
  IF "steps" \in DOMAIN analysis.fields THEN analysis.fields.steps ELSE << >>

NullFault == "Cannot read properties of null (reading 'steps')"

\* TaskAgent.process, lines 14-44, with executeTask, lines 84-122
TaskProcess(request, classification, execution) ==
  IF classification.fault THEN Failed("task", LlmFault)
  ELSE LET taskAnalysis == analyzeTask(classification)
       IN IF execution.fault THEN Failed("task", LlmFault)
          ELSE IF taskAnalysis = JsonNull THEN Failed("task", NullFault)
          ELSE [success |-> TRUE, content |-> execution.content, agentUsed |-> "task",
                executionTime |-> 0,
                metadata |-> [taskType |-> Property(taskAnalysis, "type"),
                              complexity |-> Property(taskAnalysis, "complexity"),
                              stepsExecuted |-> StepsOf(taskAnalysis)],
                followUpActions |-> TaskFollowUps(execution.content)]

(* ---------------- the external calls a strategy starts ---------------- *)
\* one call of llmService.generateResponse
LlmCall(step) == [kind |-> "llm", step |-> step]

\* one fetch of a search provider
Fetch(provider, query) == [kind |-> "search", provider |-> provider, query |-> query]

\* search, part_004 lines 18-62: the first provider is fetched; the second one
\* (fallbackSearch, 64-103) when the first gave no abstract or failed
SearchSteps(query, primary) ==
  IF primary = "abstract" THEN <<Fetch("primary", query)>>
  ELSE <<Fetch("primary", query), Fetch("fallback", query)>>

\* ReasoningAgent.process: one completion
ReasoningSteps(llm) == <<LlmCall("reasoning")>>

\* a research that asks for the extraction a second time when it faulted
ResearchStepsRetrying(extraction, primary, synthesis) ==
  IF extraction.fault THEN <<LlmCall("extraction"), LlmCall("extraction")>>
  ELSE <<LlmCall("extraction")>>
       \o Flat([k \in 1..Len(SearchQueries(extraction.content)) |->
                  SearchSteps(SearchQueries(extraction.content)[k], primary)])
       \o <<LlmCall("synthesis")>>

\* ResearchAgent.process, part_005 lines 45-58: extraction, the searches of the
\* queries, synthesis; a rejected await leaves the try block
ResearchSteps(extraction, primary, synthesis) ==
  IF extraction.fault THEN <<LlmCall("extraction")>>
  ELSE <<LlmCall("extraction")>>
       \o Flat([k \in 1..Len(SearchQueries(extraction.content)) |->
                  SearchSteps(SearchQueries(extraction.content)[k], primary)])
       \o <<LlmCall("synthesis")>>

\* TaskAgent.process, lines 16-22: analyzeTask's completion, then executeTask's
TaskSteps(classification, execution) ==
  IF classification.fault THEN <<LlmCall("classification")>>
  ELSE <<LlmCall("classification"), LlmCall("execution")>>

(* ---------------- state ---------------- *)
VARIABLES
  kv,        \* MEMORY_KV: conversation -> JSON text of the aggregate, or Absent
  db,        \* CONVERSATIONS_DB: conversation -> row, or Absent
  calls,     \* the calls issued so far and the position of each
  nextId,    \* crypto.randomUUID: the next fresh entry id
  now,       \* the clock
  overlap,   \* history: two calls on the conversation were in flight together
  faulted,   \* history: a store operation on the conversation rejected
  last,      \* history: the last event completed on the conversation
  appended,  \* history: the entry ids written to the durable row, in write order
  faults,    \* the number of external calls that rejected so far
  live,      \* the conversations the calls of the run address
  expiries,  \* the number of cache entries that expired so far
  active     \* ConversationManager.activeConversations of each user's manager

vars == <<kv, db, calls, nextId, now, overlap, faulted, last, appended, faults, live,
          expiries, active>>

IdleCall ==
  [op |-> None, c |-> None, user |-> None, pc |-> "idle", ret |-> None, req |-> None, start |-> 0,
   mem |-> Absent, given |-> Absent, loaded |-> Absent, resp |-> Absent,
   entry |-> Absent, newmem |-> Absent,
   turn |-> 0, kvw |-> "idle", dbw |-> "idle", path |-> None, gfault |-> None,
   result |-> Absent, upd |-> None, caught |-> None, listed |-> FALSE,
   prev |-> [kind |-> "none"]]

(* ---------------- the conversations a run starts from ---------------- *)
ConvIndex(c) == IF c = "c1" THEN 1 ELSE 2

\* ids of the entries written before the run: 100 * conversation + k
PreId(c, k) == ConvIndex(c) * (MaxEntries * MaxEntries) + k

PreEntry(c, k) ==
  [id |-> PreId(c, k), conversationId |-> c, userInput |-> HiText,
   agentResponse |-> Completion, agentUsed |-> "reasoning", timestamp |-> 0,
   metadata |-> AgentMetadata("reasoning", Undefined)]

RECURSIVE PreMemory(_, _)
PreMemory(c, n) ==
  IF n = 0 THEN FreshMemory(c, 0)
  ELSE Pushed(PreMemory(c, n - 1), PreEntry(c, n), 0)

\* numbers of turns a conversation holds when the run starts
PreTurns == {0, SummaryMin - 1, MaxEntries}

Init ==
  /\ \E pre \in PreTurns :
       /\ db = [c \in Convs |-> IF pre = 0 THEN Absent ELSE ToRow(c, PreMemory(c, pre))]
       /\ kv = [c \in Convs |-> IF pre = 0 THEN Absent ELSE Stringify(PreMemory(c, pre))]
       /\ appended = [c \in Convs |-> [k \in 1..pre |-> PreId(c, k)]]
  /\ calls = [i \in Calls |-> IdleCall]
  /\ nextId = 1
  /\ now = 1
  /\ overlap = [c \in Convs |-> FALSE]
  /\ faulted = [c \in Convs |-> FALSE]
  /\ last = [c \in Convs |-> [kind |-> "none"]]
  /\ faults = 0
  /\ live = {"c1"}
  /\ expiries = 0
  /\ active = [u \in Users |-> {}]

(* ---------------- helpers of the actions ---------------- *)
Settled(cl) == cl.pc = "done" /\ cl.kvw # "pending" /\ cl.dbw # "pending"

InFlight(c) ==
  \E j \in Calls : calls[j].c = c /\ calls[j].pc # "idle" /\ ~Settled(calls[j])

\* the locals of a call are gone once it has returned and its writes are over
Finished(cl) ==
  IF Settled(cl)
  THEN [cl EXCEPT !.mem = Absent, !.given = Absent, !.loaded = Absent,
                  !.entry = Absent, !.newmem = Absent]
  ELSE cl

\* calls are issued in the order of their index
NextToStart(i) ==
  /\ calls[i].pc = "idle"
  /\ IF i = 1 THEN TRUE ELSE calls[i - 1].pc # "idle"

MarkLast(c, i, cl) ==
  IF Settled(cl) THEN [last EXCEPT ![c] = [kind |-> "call", call |-> i]] ELSE last

\* an append that pushes the new entry twice
ComputedPushesTwice(cl, m, id, t) ==
  LET memory == IF m = Absent THEN FreshMemory(cl.c, t) ELSE m
      newEntry == [id |-> id, conversationId |-> cl.c, userInput |-> cl.entry.userInput,
                   agentResponse |-> cl.entry.agentResponse,
                   agentUsed |-> cl.entry.agentUsed, timestamp |-> cl.entry.timestamp,
                   metadata |-> cl.entry.metadata]
  IN [cl EXCEPT !.pc = "writing",
                !.newmem = Pushed(Pushed(memory, newEntry, t), newEntry, t),
                !.turn = id, !.kvw = "pending", !.dbw = "pending"]

\* updateMemory, lines 72-106: the aggregate to write and the two writes issued
Computed(cl, m, id, t) ==
  LET memory == IF m = Absent THEN FreshMemory(cl.c, t) ELSE m
      newEntry == [id |-> id, conversationId |-> cl.c, userInput |-> cl.entry.userInput,
                   agentResponse |-> cl.entry.agentResponse,
                   agentUsed |-> cl.entry.agentUsed, timestamp |-> cl.entry.timestamp,
                   metadata |-> cl.entry.metadata]
  IN [cl EXCEPT !.pc = "writing", !.newmem = Pushed(memory, newEntry, t),
                !.turn = id, !.kvw = "pending", !.dbw = "pending"]

\* getConversationMemory returns m to its caller
GetReturned(cl, m, id, t) ==
  CASE cl.ret = "caller" -> [cl EXCEPT !.pc = "done", !.result = m]
    [] cl.ret = "load" -> [cl EXCEPT !.pc = "agent", !.mem = m]
    [] OTHER -> Computed(cl, m, id, t)

GetReturns(i, cl, m) ==
  /\ calls' = [calls EXCEPT ![i] = Finished(GetReturned(cl, m, nextId, now))]
  /\ nextId' = IF cl.ret = "update" THEN nextId + 1 ELSE nextId
  /\ now' = IF cl.ret = "update" THEN now + 1 ELSE now
  /\ last' = MarkLast(cl.c, i, GetReturned(cl, m, nextId, now))

\* a dispatcher whose catch block lets the rejection of the append escape
ResumedUncaught(cl, kvw, dbw, t) ==
  LET cl2 == [cl EXCEPT !.kvw = kvw, !.dbw = dbw]
      all == PromiseAll(kvw, dbw)
  IN IF cl.pc # "writing" \/ all = "pending" THEN cl2
     ELSE IF all = "rejected"
     THEN [cl2 EXCEPT !.pc = "done", !.upd = "threw",
                      !.caught = Rejection(cl, kvw, dbw), !.resp = Absent]
     ELSE IF cl.op = "handleProcess"
          THEN [cl2 EXCEPT !.pc = "done", !.upd = "returned",
                           !.resp = [cl.resp EXCEPT !.executionTime = t - cl.start]]
          ELSE [cl2 EXCEPT !.pc = "done", !.upd = "returned"]

\* the call resumes after one of its two writes has completed
Resumed(cl, kvw, dbw, t) ==
  LET cl2 == [cl EXCEPT !.kvw = kvw, !.dbw = dbw]
      all == PromiseAll(kvw, dbw)
  IN IF cl.pc # "writing" \/ all = "pending" THEN cl2
     ELSE IF all = "rejected"
     THEN IF cl.op = "handleProcess"
          THEN [cl2 EXCEPT !.pc = "done", !.upd = "threw",
                           !.caught = Rejection(cl, kvw, dbw),
                           !.resp = OrchestratorError(Rejection(cl, kvw, dbw))]
          ELSE [cl2 EXCEPT !.pc = "done", !.upd = "threw",
                           !.caught = Rejection(cl, kvw, dbw)]
     ELSE IF cl.op = "handleProcess"
          THEN [cl2 EXCEPT !.pc = "done", !.upd = "returned",
                           !.resp = [cl.resp EXCEPT !.executionTime = t - cl.start]]
          ELSE [cl2 EXCEPT !.pc = "done", !.upd = "returned"]

WriteDone(i, kvw, dbw) ==
  /\ calls' = [calls EXCEPT ![i] = Finished(Resumed(calls[i], kvw, dbw, now))]
  /\ last' = MarkLast(calls[i].c, i, Resumed(calls[i], kvw, dbw, now))

\* a store operation on c rejects
Fault(c) ==
  /\ UNCHANGED <<live, active, expiries>>
  /\ faults < MaxFaults
  /\ faults' = faults + 1
  /\ faulted' = [faulted EXCEPT ![c] = TRUE]

(* ---------------- calls arriving ---------------- *)
Started(i, c, op, ret) ==
  [IdleCall EXCEPT !.op = op, !.c = c, !.pc = "kvGet", !.ret = ret, !.start = now,
                   !.prev = last[c]]

Arrives(c) ==
  overlap' = [overlap EXCEPT ![c] = overlap[c] \/ InFlight(c)]

\* handleProcess, lines 314-320: the body parses and the memory load begins
HandleProcess(i, c, content) ==
  /\ NextToStart(i)
  /\ calls' = [calls EXCEPT ![i] =
       [Started(i, c, "handleProcess", "load") EXCEPT
          !.req = [type |-> "chat", content |-> content]]]
  /\ Arrives(c)
  /\ UNCHANGED <<kv, db, nextId, now, faulted, last, appended, faults, live, active, expiries>>

\* handleProcess, lines 314 and 346-358: request.json() throws
HandleProcessMalformed(i, c) ==
  /\ NextToStart(i)
  /\ calls' = [calls EXCEPT ![i] =
       [Started(i, c, "handleProcess", "load") EXCEPT
          !.pc = "done", !.req = Malformed, !.caught = JsonFault,
          !.resp = OrchestratorError(JsonFault)]]
  /\ UNCHANGED <<kv, db, nextId, now, overlap, faulted, last, appended, faults, live, active, expiries>>

\* ConversationManager.handleGetConversation: getConversationMemory
GetConversation(i, c) ==
  /\ NextToStart(i)
  /\ calls' = [calls EXCEPT ![i] = Started(i, c, "getConversationMemory", "caller")]
  /\ Arrives(c)
  /\ UNCHANGED <<kv, db, nextId, now, faulted, last, appended, faults, live, active, expiries>>

\* ConversationManager.handleDeleteConversation: clearConversationMemory issues
\* the cache delete and the durable delete
ClearConversation(i, c) ==
  /\ NextToStart(i)
  /\ calls' = [calls EXCEPT ![i] =
       [Started(i, c, "clearConversationMemory", "caller") EXCEPT
          !.pc = "writing", !.kvw = "pending", !.dbw = "pending"]]
  /\ Arrives(c)
  /\ UNCHANGED <<kv, db, nextId, now, faulted, last, appended, faults, live, active, expiries>>

(* ---------------- getConversationMemory ---------------- *)
\* line 32-35: the cache holds the conversation
KvGetHit(i) ==
  LET cl == calls[i] IN
  /\ cl.pc = "kvGet"
  /\ kv[cl.c] # Absent
  /\ GetReturns(i, [cl EXCEPT !.path = "hit"], Parse(kv[cl.c]))
  /\ UNCHANGED <<kv, db, overlap, faulted, appended, faults, live, active, expiries>>

\* line 32-33: the cache does not hold it
KvGetMiss(i) ==
  LET cl == calls[i] IN
  /\ cl.pc = "kvGet"
  /\ kv[cl.c] = Absent
  /\ calls' = [calls EXCEPT ![i] = [cl EXCEPT !.pc = "dbFirst", !.path = "miss"]]
  /\ UNCHANGED <<kv, db, nextId, now, overlap, faulted, last, appended, faults, live, active, expiries>>

\* line 32 rejects: lines 64-67 return null
KvGetFault(i) ==
  LET cl == calls[i] IN
  /\ cl.pc = "kvGet"
  /\ GetReturns(i, [cl EXCEPT !.path = "fault", !.gfault = "kvGet"], Absent)
  /\ Fault(cl.c)
  /\ UNCHANGED <<kv, db, overlap, appended, live, active, expiries>>

\* lines 38-51: the durable store holds the row
DbFirstRow(i) ==
  LET cl == calls[i] IN
  /\ cl.pc = "dbFirst"
  /\ db[cl.c] # Absent
  /\ calls' = [calls EXCEPT ![i] =
       [cl EXCEPT !.pc = "kvPut", !.loaded = FromRow(db[cl.c])]]
  /\ UNCHANGED <<kv, db, nextId, now, overlap, faulted, last, appended, faults, live, active, expiries>>

\* lines 38-43 and 63: no row
DbFirstNone(i) ==
  LET cl == calls[i] IN
  /\ cl.pc = "dbFirst"
  /\ db[cl.c] = Absent
  /\ GetReturns(i, [cl EXCEPT !.path = "absent"], Absent)
  /\ UNCHANGED <<kv, db, overlap, faulted, appended, faults, live, active, expiries>>

\* lines 38-41 reject: lines 64-67 return null
DbFirstFault(i) ==
  LET cl == calls[i] IN
  /\ cl.pc = "dbFirst"
  /\ GetReturns(i, [cl EXCEPT !.path = "fault", !.gfault = "dbFirst"], Absent)
  /\ Fault(cl.c)
  /\ UNCHANGED <<kv, db, overlap, appended, live, active, expiries>>

\* a get that returns the row's memory without writing it to the cache
NotRepopulated(memory) == Absent

\* a get that caches the row's aggregate without its history
RepopulatedWithoutHistory(memory) ==
  Stringify([memory EXCEPT !.recentInteractions = << >>])

\* the cache entry lines 54-58 write
Repopulated(memory) == Stringify(memory)

\* lines 54-60: the cache is repopulated and the aggregate returned
KvPutOk(i) ==
  LET cl == calls[i] IN
  /\ cl.pc = "kvPut"
  /\ kv' = [kv EXCEPT ![cl.c] = Repopulated(cl.loaded)]
  /\ GetReturns(i, [cl EXCEPT !.path = "db"], cl.loaded)
  /\ UNCHANGED <<db, overlap, faulted, appended, faults, live, active, expiries>>

\* lines 54-58 reject: lines 64-67 return null
KvPutFault(i) ==
  LET cl == calls[i] IN
  /\ cl.pc = "kvPut"
  /\ GetReturns(i, [cl EXCEPT !.path = "fault", !.gfault = "kvPut"], Absent)
  /\ Fault(cl.c)
  /\ UNCHANGED <<kv, db, overlap, appended, live, active, expiries>>

(* ---------------- handleProcess: strategy and updateMemory ---------------- *)
\* a dispatcher that records the turn only when the strategy succeeded
RunAgentSkipsFailed(i, llm) ==
  LET cl == calls[i]
      response == processWithAgent(selectAgent(cl.req), llm)
  IN
  /\ cl.pc = "agent"
  /\ llm = "fault" => faults < MaxFaults
  /\ faults' = IF llm = "fault" THEN faults + 1 ELSE faults
  /\ calls' = [calls EXCEPT ![i] =
       IF response.success
       THEN [cl EXCEPT !.pc = "kvGet", !.ret = "update", !.resp = response,
                       !.given = cl.mem, !.path = None, !.gfault = None, !.loaded = Absent,
                       !.entry = [userInput |-> cl.req.content,
                                  agentResponse |-> response.content,
                                  agentUsed |-> response.agentUsed,
                                  timestamp |-> now,
                                  metadata |-> response.metadata]]
       ELSE Finished([cl EXCEPT !.pc = "done", !.upd = "returned", !.resp = response])]
  /\ last' = IF response.success THEN last ELSE [last EXCEPT ![cl.c] = [kind |-> "call", call |-> i]]
  /\ UNCHANGED <<kv, db, nextId, now, overlap, faulted, appended, live, active, expiries>>

\* a dispatcher that reads the cache again for the memory it hands the strategy
RunAgentRereads(i, llm) ==
  LET cl == calls[i]
      response == processWithAgent(selectAgent(cl.req), llm)
  IN
  /\ cl.pc = "agent"
  /\ llm = "fault" => faults < MaxFaults
  /\ faults' = IF llm = "fault" THEN faults + 1 ELSE faults
  /\ calls' = [calls EXCEPT ![i] =
       [cl EXCEPT !.pc = "kvGet", !.ret = "update", !.resp = response,
                  !.given = IF kv[cl.c] = Absent THEN Absent ELSE Parse(kv[cl.c]),
                  !.path = None, !.gfault = None, !.loaded = Absent,
                  !.entry = [userInput |-> cl.req.content,
                             agentResponse |-> response.content,
                             agentUsed |-> response.agentUsed,
                             timestamp |-> now,
                             metadata |-> response.metadata]]]
  /\ UNCHANGED <<kv, db, nextId, now, overlap, faulted, last, appended, live, active, expiries>>

\* lines 324-339: the strategy is selected and runs on the memory the load
\* returned, and updateMemory is called with the turn
RunAgent(i, llm) ==
  LET cl == calls[i]
      response == processWithAgent(selectAgent(cl.req), llm)
  IN
  /\ cl.pc = "agent"
  /\ llm = "fault" => faults < MaxFaults
  /\ faults' = IF llm = "fault" THEN faults + 1 ELSE faults
  /\ calls' = [calls EXCEPT ![i] =
       [cl EXCEPT !.pc = "kvGet", !.ret = "update", !.resp = response,
                  !.given = cl.mem, !.path = None, !.gfault = None, !.loaded = Absent,
                  !.entry = [userInput |-> cl.req.content,
                             agentResponse |-> response.content,
                             agentUsed |-> response.agentUsed,
                             timestamp |-> now,
                             metadata |-> response.metadata]]]
  /\ UNCHANGED <<kv, db, nextId, now, overlap, faulted, last, appended, live, active, expiries>>

\* updateKVMemory
UpdateKVMemoryOk(i) ==
  LET cl == calls[i] IN
  /\ cl.op = "handleProcess" /\ cl.kvw = "pending"
  /\ kv' = [kv EXCEPT ![cl.c] = Stringify(cl.newmem)]
  /\ WriteDone(i, "ok", cl.dbw)
  /\ UNCHANGED <<db, nextId, now, overlap, faulted, appended, faults, live, active, expiries>>

UpdateKVMemoryFault(i) ==
  LET cl == calls[i] IN
  /\ cl.op = "handleProcess" /\ cl.kvw = "pending"
  /\ WriteDone(i, "fail", cl.dbw)
  /\ Fault(cl.c)
  /\ UNCHANGED <<kv, db, nextId, now, overlap, appended, live, active, expiries>>

\* updateD1Memory
UpdateD1MemoryOk(i) ==
  LET cl == calls[i] IN
  /\ cl.op = "handleProcess" /\ cl.dbw = "pending"
  /\ db' = [db EXCEPT ![cl.c] = ToRow(cl.c, cl.newmem)]
  /\ appended' = [appended EXCEPT ![cl.c] = Append(@, cl.turn)]
  /\ WriteDone(i, cl.kvw, "ok")
  /\ UNCHANGED <<kv, nextId, now, overlap, faulted, faults, live, active, expiries>>

UpdateD1MemoryFault(i) ==
  LET cl == calls[i] IN
  /\ cl.op = "handleProcess" /\ cl.dbw = "pending"
  /\ WriteDone(i, cl.kvw, "fail")
  /\ Fault(cl.c)
  /\ UNCHANGED <<kv, db, nextId, now, overlap, appended, live, active, expiries>>

(* ---------------- clearConversationMemory ---------------- *)
\* a cache delete that reports success and leaves the entry in place
ClearKVOkKeepsEntry(i) ==
  LET cl == calls[i] IN
  /\ cl.op = "clearConversationMemory" /\ cl.kvw = "pending"
  /\ WriteDone(i, "ok", cl.dbw)
  /\ UNCHANGED <<kv, db, nextId, now, overlap, faulted, appended, faults, live, active, expiries>>

\* line 152: MEMORY_KV.delete
ClearKVOk(i) ==
  LET cl == calls[i] IN
  /\ cl.op = "clearConversationMemory" /\ cl.kvw = "pending"
  /\ kv' = [kv EXCEPT ![cl.c] = Absent]
  /\ WriteDone(i, "ok", cl.dbw)
  /\ UNCHANGED <<db, nextId, now, overlap, faulted, appended, faults, live, active, expiries>>

ClearKVFault(i) ==
  LET cl == calls[i] IN
  /\ cl.op = "clearConversationMemory" /\ cl.kvw = "pending"
  /\ WriteDone(i, "fail", cl.dbw)
  /\ Fault(cl.c)
  /\ UNCHANGED <<kv, db, nextId, now, overlap, appended, live, active, expiries>>

\* a durable delete without its WHERE clause
ClearD1OkAllRows(i) ==
  LET cl == calls[i] IN
  /\ cl.op = "clearConversationMemory" /\ cl.dbw = "pending"
  /\ db' = [c \in Convs |-> Absent]
  /\ appended' = [c \in Convs |-> << >>]
  /\ WriteDone(i, cl.kvw, "ok")
  /\ UNCHANGED <<kv, nextId, now, overlap, faulted, faults, live, active, expiries>>

\* lines 153-156: DELETE FROM conversations WHERE id = ?
ClearD1Ok(i) ==
  LET cl == calls[i] IN
  /\ cl.op = "clearConversationMemory" /\ cl.dbw = "pending"
  /\ db' = [db EXCEPT ![cl.c] = Absent]
  /\ appended' = [appended EXCEPT ![cl.c] = << >>]
  /\ WriteDone(i, cl.kvw, "ok")
  /\ UNCHANGED <<kv, nextId, now, overlap, faulted, faults, live, active, expiries>>

ClearD1Fault(i) ==
  LET cl == calls[i] IN
  /\ cl.op = "clearConversationMemory" /\ cl.dbw = "pending"
  /\ WriteDone(i, cl.kvw, "fail")
  /\ Fault(cl.c)
  /\ UNCHANGED <<kv, db, nextId, now, overlap, appended, live, active, expiries>>

(* ---------------- the cache's expiry ---------------- *)
\* expirationTtl: 3600, lines 57 and 117: the entry of a conversation expires
Expire(c) ==
  /\ kv[c] # Absent
  /\ expiries < MaxExpiries
  /\ expiries' = expiries + 1
  /\ kv' = [kv EXCEPT ![c] = Absent]
  /\ last' = [last EXCEPT ![c] = [kind |-> "evict", val |-> Parse(kv[c])]]
  /\ UNCHANGED <<db, calls, nextId, now, overlap, faulted, appended, faults, live, active>>

Next ==
  \/ \E i \in Calls, c \in live, content \in Contents : HandleProcess(i, c, content)
  \/ \E i \in Calls, c \in live : HandleProcessMalformed(i, c)
  \/ \E i \in Calls, c \in live : GetConversation(i, c)
  \/ \E i \in Calls, c \in live : ClearConversation(i, c)
  \/ \E i \in Calls : KvGetHit(i)
  \/ \E i \in Calls : KvGetMiss(i)
  \/ \E i \in Calls : KvGetFault(i)
  \/ \E i \in Calls : DbFirstRow(i)
  \/ \E i \in Calls : DbFirstNone(i)
  \/ \E i \in Calls : DbFirstFault(i)
  \/ \E i \in Calls : KvPutOk(i)
  \/ \E i \in Calls : KvPutFault(i)
  \/ \E i \in Calls, llm \in {"ok", "fault"} : RunAgent(i, llm)
  \/ \E i \in Calls : UpdateKVMemoryOk(i)
  \/ \E i \in Calls : UpdateKVMemoryFault(i)
  \/ \E i \in Calls : UpdateD1MemoryOk(i)
  \/ \E i \in Calls : UpdateD1MemoryFault(i)
  \/ \E i \in Calls : ClearKVOk(i)
  \/ \E i \in Calls : ClearKVFault(i)
  \/ \E i \in Calls : ClearD1Ok(i)
  \/ \E i \in Calls : ClearD1Fault(i)
  \/ \E c \in live : Expire(c)

Spec == Init /\ [][Next]_vars

(* ---------------- calls on two conversations ---------------- *)
\* both conversations hold turns and are addressed by the calls of the run
TwoInit ==
  /\ db = [c \in Convs |-> ToRow(c, PreMemory(c, SummaryMin - 1))]
  /\ kv = [c \in Convs |-> Stringify(PreMemory(c, SummaryMin - 1))]
  /\ appended = [c \in Convs |-> [k \in 1..(SummaryMin - 1) |-> PreId(c, k)]]
  /\ calls = [i \in Calls |-> IdleCall]
  /\ nextId = 1
  /\ now = 1
  /\ overlap = [c \in Convs |-> FALSE]
  /\ faulted = [c \in Convs |-> FALSE]
  /\ last = [c \in Convs |-> [kind |-> "none"]]
  /\ faults = 0
  /\ live = Convs
  /\ expiries = 0
  /\ active = [u \in Users |-> {}]

SpecTwo == TwoInit /\ [][Next]_vars

(* ---------------- external calls that return or fault ---------------- *)
\* the steps of handle call i: the completion, one way or the other, of the
\* external call (cache, durable store, LLM) it is waiting for
CallStep(i) ==
  \/ KvGetHit(i) \/ KvGetMiss(i) \/ KvGetFault(i)
  \/ DbFirstRow(i) \/ DbFirstNone(i) \/ DbFirstFault(i)
  \/ KvPutOk(i) \/ KvPutFault(i)
  \/ \E llm \in {"ok", "fault"} : RunAgent(i, llm)
  \/ UpdateKVMemoryOk(i) \/ UpdateKVMemoryFault(i)
  \/ UpdateD1MemoryOk(i) \/ UpdateD1MemoryFault(i)

\* handle calls arrive, their external calls complete, cache entries expire
LiveNext ==
  \/ \E i \in Calls, c \in live : HandleProcess(i, c, FindText)
  \/ \E i \in Calls, c \in live : HandleProcessMalformed(i, c)
  \/ \E i \in Calls : CallStep(i)
  \/ \E c \in live : Expire(c)

\* the conversation is new or holds fewer turns than the summary needs
LiveInit == Init /\ Len(appended["c1"]) < SummaryMin

\* every external call a handler awaits eventually returns or faults
SpecLive == LiveInit /\ [][LiveNext]_vars /\ \A i \in Calls : WF_vars(CallStep(i))

(* ---------------- the chat route ---------------- *)
\* bodies of POST /api/chat: what request.json() gives
ChatBodies ==
  {NotJson, JsonNull, JsonObject([priority |-> "high"]),
   JsonObject([message |-> FindText]),
   JsonObject([conversationId |-> "c1"]),
   JsonObject([message |-> << >>, conversationId |-> "c1"]),
   JsonObject([message |-> FindText, conversationId |-> "c1"])}

\* router.ts line 57: !message || !conversationId
MissingFields(body) ==
  IF "message" \notin DOMAIN body.fields THEN TRUE
  ELSE IF body.fields.message = << >> THEN TRUE
  ELSE IF "conversationId" \notin DOMAIN body.fields THEN TRUE
  ELSE body.fields.conversationId = ""

BadRequest ==
  [status |-> 400, error |-> "Bad Request",
   message |-> "message and conversationId are required"]

InternalServerError(message) ==
  [status |-> 500, error |-> "Internal Server Error", message |-> message]

DestructureFault == "Cannot destructure property 'message' of 'body' as it is null."

\* handleChat answers without calling the orchestrator
ChatAnswered(i, body, response) ==
  /\ NextToStart(i)
  /\ calls' = [calls EXCEPT ![i] =
       [IdleCall EXCEPT !.op = "handleChat", !.pc = "done", !.req = body,
                        !.start = now, !.resp = response]]
  /\ UNCHANGED <<kv, db, nextId, now, overlap, faulted, last, appended, faults, live, active,
                 expiries>>

\* APIRouter.handleChat, router.ts lines 52-107: the body is read and
\* destructured (54-55), validated (57-65) and handed to the orchestrator of
\* the conversation (68-90); the catch block answers 500 (98-106)
HandleChat(i, body) ==
  IF body = NotJson THEN ChatAnswered(i, body, InternalServerError(JsonFault))
  ELSE IF body = JsonNull THEN ChatAnswered(i, body, InternalServerError(DestructureFault))
  ELSE IF MissingFields(body) THEN ChatAnswered(i, body, BadRequest)
  ELSE HandleProcess(i, body.fields.conversationId, body.fields.message)

ChatNext ==
  \/ \E i \in Calls, body \in ChatBodies : HandleChat(i, body)
  \/ \E i \in Calls : CallStep(i)
  \/ \E c \in live : Expire(c)

SpecChat == LiveInit /\ [][ChatNext]_vars

(* ---------------- the conversations of a user ---------------- *)
\* the user whose POST /api/conversations created conversation c1
Owner == "u1"

StartedText == <<"C", "o", "n", "v", "e", "r", "s", "a", "t", "i", "o", "n", " ", "s", "t", "a", "r", "t", "e", "d">>
Greeting == "Hello! I'm JARVIS, your AI assistant. How can I help you today?"

\* ConversationManager.handleCreateConversation, router.ts lines 322-328: the
\* entry that initialises the memory of a new conversation
StartEntry(c) ==
  [id |-> PreId(c, 1), conversationId |-> c, userInput |-> StartedText,
   agentResponse |-> Greeting, agentUsed |-> "system", timestamp |-> 0,
   metadata |-> [type |-> "conversation_start"]]

\* the memory of a conversation after its creation and one chat turn
OwnedMemory(c) ==
  Pushed(Pushed(FreshMemory(c, 0), StartEntry(c), 0), PreEntry(c, 2), 0)

\* the owner has created c1 (lines 301-333: the manager of the owner holds its
\* context, the stores hold its memory) and chatted once
OwnerInit ==
  /\ db = [c \in Convs |-> IF c = "c1" THEN ToRow(c, OwnedMemory(c)) ELSE Absent]
  /\ kv = [c \in Convs |-> IF c = "c1" THEN Stringify(OwnedMemory(c)) ELSE Absent]
  /\ appended = [c \in Convs |-> IF c = "c1" THEN <<PreId(c, 1), PreId(c, 2)>> ELSE << >>]
  /\ calls = [i \in Calls |-> IdleCall]
  /\ nextId = 1
  /\ now = 1
  /\ overlap = [c \in Convs |-> FALSE]
  /\ faulted = [c \in Convs |-> FALSE]
  /\ last = [c \in Convs |-> [kind |-> "none"]]
  /\ faults = 0
  /\ live = {"c1"}
  /\ expiries = 0
  /\ active = [u \in Users |-> IF u = Owner THEN {"c1"} ELSE {}]

\* APIRouter.handleChat for user u, router.ts lines 52-96: the orchestrator is
\* addressed by the conversationId of the body (81-82)
ChatAs(i, u, c, content) ==
  /\ NextToStart(i)
  /\ calls' = [calls EXCEPT ![i] =
       [Started(i, c, "handleProcess", "load") EXCEPT
          !.req = [type |-> "chat", content |-> content], !.user = u]]
  /\ Arrives(c)
  /\ UNCHANGED <<kv, db, nextId, now, faulted, last, appended, faults, live, expiries,
                 active>>

\* APIRouter.handleGetConversation for user u, lines 156-186, and
\* ConversationManager.handleGetConversation, lines 350-385: the manager of u
\* reads the memory stored under the conversationId of the path (366)
GetConversationAs(i, u, c) ==
  /\ NextToStart(i)
  /\ calls' = [calls EXCEPT ![i] =
       [Started(i, c, "getConversationMemory", "caller") EXCEPT
          !.user = u, !.listed = c \in active[u]]]
  /\ Arrives(c)
  /\ UNCHANGED <<kv, db, nextId, now, faulted, last, appended, faults, live, expiries,
                 active>>

\* APIRouter.handleDeleteConversation for user u, lines 188-223, and
\* ConversationManager.handleDeleteConversation, lines 428-451: the context
\* leaves the map of u's manager (432), then clearConversationMemory issues
\* the two deletes (433)
DeleteConversationAs(i, u, c) ==
  /\ NextToStart(i)
  /\ calls' = [calls EXCEPT ![i] =
       [Started(i, c, "clearConversationMemory", "caller") EXCEPT
          !.pc = "writing", !.kvw = "pending", !.dbw = "pending",
          !.user = u, !.listed = c \in active[u]]]
  /\ active' = [active EXCEPT ![u] = @ \ {c}]
  /\ Arrives(c)
  /\ UNCHANGED <<kv, db, nextId, now, faulted, last, appended, faults, live, expiries>>

\* ConversationManager.handleListConversations, lines 453-491: the
\* conversations of u's manager whose context carries u
ListConversationsAs(i, u) ==
  /\ NextToStart(i)
  /\ calls' = [calls EXCEPT ![i] =
       [IdleCall EXCEPT !.op = "listConversations", !.user = u, !.pc = "done",
                        !.start = now, !.result = [conversations |-> active[u]]]]
  /\ UNCHANGED <<kv, db, nextId, now, overlap, faulted, last, appended, faults, live,
                 expiries, active>>

\* the completion of one of the two deletes of clear call i
ClearStep(i) ==
  ClearKVOk(i) \/ ClearKVFault(i) \/ ClearD1Ok(i) \/ ClearD1Fault(i)

OwnerNext ==
  \/ \E i \in Calls, u \in Users, c \in live : ChatAs(i, u, c, FindText)
  \/ \E i \in Calls, u \in Users, c \in live : GetConversationAs(i, u, c)
  \/ \E i \in Calls, u \in Users, c \in live : DeleteConversationAs(i, u, c)
  \/ \E i \in Calls, u \in Users : ListConversationsAs(i, u)
  \/ \E i \in Calls : CallStep(i)
  \/ \E i \in Calls : ClearStep(i)

SpecOwner == OwnerInit /\ [][OwnerNext]_vars

(* ---------------- the functions applied to chosen arguments ---------------- *)
\* request kinds and contents handed to selectAgent
Kinds == {"chat", "research", "task", "reasoning"}
SearchExecuteText == <<"p", "l", "e", "a", "s", "e", " ", "s", "e", "a", "r", "c", "h", " ", "a", "n", "d", " ", "e", "x", "e", "c", "u", "t", "e", " ", "t", "h", "i", "s">>
RunReportText == <<"r", "u", "n", " ", "t", "h", "e", " ", "r", "e", "p", "o", "r", "t">>
ThinkText == <<"t", "h", "i", "n", "k">>
SelectContents == {HiText, FindText, SearchExecuteText, RunReportText, ThinkText}

\* no conversation stored, no call made
PureInit ==
  /\ kv = [c \in Convs |-> Absent]
  /\ db = [c \in Convs |-> Absent]
  /\ appended = [c \in Convs |-> << >>]
  /\ calls = [i \in Calls |-> IdleCall]
  /\ nextId = 1
  /\ now = 1
  /\ overlap = [c \in Convs |-> FALSE]
  /\ faulted = [c \in Convs |-> FALSE]
  /\ last = [c \in Convs |-> [kind |-> "none"]]
  /\ faults = 0
  /\ live = {}
  /\ expiries = 0
  /\ active = [u \in Users |-> {}]

\* what a call of a function leaves unchanged
PureFrame ==
  UNCHANGED <<kv, db, nextId, now, overlap, faulted, last, appended, faults, live, active, expiries>>

\* selectAgent(request, memory), lines 361-388
SelectAgent(i, kind, content) ==
  /\ NextToStart(i)
  /\ calls' = [calls EXCEPT ![i] =
       [IdleCall EXCEPT !.op = "selectAgent", !.pc = "done",
                        !.req = [type |-> kind, content |-> content],
                        !.ret = selectAgent([type |-> kind, content |-> content])]]
  /\ PureFrame

\* a user input longer than the summary's 200 characters
LongText == [k \in 1..(SummaryMaxLen + 1) |-> "x"]

\* user inputs of the turns appended, and the lengths of the history they meet
TurnTexts == {HiText, RunText, LongText}
OldTexts == {HiText, RunText}
HistoryLengths == {0, SummaryMin - 1, SummaryWindow - 1, SummaryWindow, MaxEntries}

TurnOf(k, input) ==
  [id |-> k, conversationId |-> "c1", userInput |-> input, agentResponse |-> Completion,
   agentUsed |-> "reasoning", timestamp |-> 0, metadata |-> AgentMetadata("reasoning", "42")]

\* the aggregate left by n appends, the first with user input old, the others "hi"
RECURSIVE HistoryOf(_, _)
HistoryOf(n, old) ==
  IF n = 0 THEN FreshMemory("c1", 0)
  ELSE Pushed(HistoryOf(n - 1, old), TurnOf(n, IF n = 1 THEN old ELSE HiText), 0)

\* updateMemory, lines 81-100, on the aggregate read at lines 72-79
PushTurn(i, n, old, input) ==
  /\ NextToStart(i)
  /\ calls' = [calls EXCEPT ![i] =
       [IdleCall EXCEPT !.op = "updateMemory", !.pc = "done",
                        !.mem = HistoryOf(n, old),
                        !.newmem = Pushed(HistoryOf(n, old), TurnOf(n + 1, input), now)]]
  /\ PureFrame

\* the request handed to the strategies
ChatRequest == [type |-> "chat", content |-> HiText]

\* outcomes of the LLM calls of the strategies
ReasoningOutcomes ==
  {LlmRejected, Completed(PlainText, NotJson),
   [Completed(PlainText, NotJson) EXCEPT !.tokensUsed = Undefined]}
ExtractionOutcomes ==
  {LlmRejected, Completed(<<"a", "\n", "\n", "b">>, NotJson),
   Completed(<<"a", "\n", "b", "\n", "c", "\n", "d">>, NotJson),
   Completed(<<" ", "\n">>, NotJson)}
SynthesisOutcomes ==
  {LlmRejected, Completed(PlainText, NotJson),
   Completed(<<"I", " ", "s", "u", "g", "g", "e", "s", "t", " ", "x", ".", " ", "I", " ", "s", "u", "g", "g", "e", "s", "t", " ", "x">>, NotJson),
   Completed(<<"c", "o", "n", "s", "i", "d", "e", "r", " ", "a", ".", " ", "c", "o", "n", "s", "i", "d", "e", "r", " ", "b", ".", " ", "c", "o", "n", "s", "i", "d", "e", "r", " ", "c", ".", " ", "c", "o", "n", "s", "i", "d", "e", "r", " ", "d">>, NotJson)}
ClassificationOutcomes ==
  {LlmRejected,
   Completed(<<"s", "u", "r", "e">>, NotJson),
   Completed(<<"n", "u", "l", "l">>, JsonNull),
   Completed(<<"{", "\"", "t", "y", "p", "e", "\"", ":", "\"", "p", "l", "a", "n", "n", "i", "n", "g", "\"", "}">>, JsonObject([type |-> "planning"])),
   Completed(<<"{", "\"", "t", "y", "p", "e", "\"", ":", "\"", "p", "l", "a", "n", "n", "i", "n", "g", "\"", ",", "\"", "c", "o", "m", "p", "l", "e", "x", "i", "t", "y", "\"", ":", "\"", "s", "i", "m", "p", "l", "e", "\"", ",", "\"", "s", "t", "e", "p", "s", "\"", ":", "[", "\"", "s", "1", "\"", "]", ",", "\"", "r", "e", "q", "u", "i", "r", "e", "m", "e", "n", "t", "s", "\"", ":", "[", "]", "}">>,
             JsonObject([type |-> "planning", complexity |-> "simple",
                         steps |-> <<"s1">>, requirements |-> << >>]))}
ExecutionOutcomes ==
  {LlmRejected, Completed(PlainText, NotJson),
   Completed(<<"n", "e", "x", "t", " ", "s", "t", "e", "p", ".", " ", "n", "e", "x", "t", " ", "s", "t", "e", "p">>, NotJson),
   Completed(<<"t", "h", "e", " ", "n", "e", "x", "t", " ", "s", "t", "e", "p", ":", " ", "I", " ", "s", "u", "g", "g", "e", "s", "t", " ", "t", "o", " ", "w", "a", "i", "t", ".", " ", "y", "o", "u", " ", "s", "h", "o", "u", "l", "d", " ", "c", "o", "n", "s", "i", "d", "e", "r", " ", "t", "h", "a", "t", ".", " ", "n", "e", "x", "t", " ", "t", "a", "s", "k", ".", " ", "n", "e", "x", "t", " ", "a", "c", "t", "i", "o", "n">>, NotJson)}

\* outcomes of the two search providers
SearchOutcomes == {<<"abstract", "results">>, <<"empty", "results">>, <<"fault", "fault">>}

ProcessCall(i, agent, llm, steps, response) ==
  /\ NextToStart(i)
  /\ calls' = [calls EXCEPT ![i] =
       [IdleCall EXCEPT !.op = "process", !.pc = "done",
                        !.req = [agent |-> agent, llm |-> llm],
                        !.path = steps, !.resp = response]]
  /\ PureFrame

ReasoningAgentProcess(i, llm) ==
  ProcessCall(i, "reasoning", <<llm>>, ReasoningSteps(llm),
              ReasoningProcess(ChatRequest, llm))

ResearchAgentProcess(i, extraction, found, synthesis) ==
  ProcessCall(i, "research", <<extraction, synthesis>>,
              ResearchSteps(extraction, found[1], synthesis),
              ResearchProcess(ChatRequest, extraction, found[1], found[2], synthesis))

\* queries handed to search
Queries == {<<"a">>, <<"b", " ", "c">>}

\* SearchService.search(query)
SearchCall(i, query, primary, fallback) ==
  /\ NextToStart(i)
  /\ calls' = [calls EXCEPT ![i] =
       [IdleCall EXCEPT !.op = "search", !.pc = "done",
                        !.req = [query |-> query, primary |-> primary,
                                 fallback |-> fallback],
                        !.resp = search(query, primary, fallback)]]
  /\ PureFrame

TaskAgentProcess(i, classification, execution) ==
  ProcessCall(i, "task", <<classification, execution>>,
              TaskSteps(classification, execution),
              TaskProcess(ChatRequest, classification, execution))

PureNext ==
  \/ \E i \in Calls, kind \in Kinds, content \in SelectContents : SelectAgent(i, kind, content)
  \/ \E i \in Calls, n \in HistoryLengths, old \in OldTexts, input \in TurnTexts :
       PushTurn(i, n, old, input)
  \/ \E i \in Calls, llm \in ReasoningOutcomes : ReasoningAgentProcess(i, llm)
  \/ \E i \in Calls, extraction \in ExtractionOutcomes, found \in SearchOutcomes,
        synthesis \in SynthesisOutcomes :
       ResearchAgentProcess(i, extraction, found, synthesis)
  \/ \E i \in Calls, classification \in ClassificationOutcomes,
        execution \in ExecutionOutcomes :
       TaskAgentProcess(i, classification, execution)
  \/ \E i \in Calls, query \in Queries, primary \in PrimaryOutcomes,
        fallback \in FallbackOutcomes :
       SearchCall(i, query, primary, fallback)

SpecPure == PureInit /\ [][PureNext]_vars

(* ---------------- properties ---------------- *)
HandleCalls == {i \in Calls : calls[i].op = "handleProcess"}
GetCalls == {i \in Calls : calls[i].op = "getConversationMemory"}

EntryIds(memory) ==
  [k \in 1..Len(memory.recentInteractions) |-> memory.recentInteractions[k].id]

HoldsTurn(memory, id) ==
  \E k \in 1..Len(memory.recentInteractions) : memory.recentInteractions[k].id = id

\* the last min(n, MaxEntries) elements of a sequence of n ids, in order
MostRecent(ids) ==
  LET n == Len(ids)
      m == IF n < MaxEntries THEN n ELSE MaxEntries
  IN [k \in 1..m |-> ids[n - m + k]]

\* no store operation on c has rejected and no two calls on c have overlapped
Undisturbed(c) == ~overlap[c] /\ ~faulted[c]

\* C1: after any sequence of appends, recentInteractions holds at most 10
\* entries, and (appends issued one after the other, the stores answering) they
\* are the most recent min(n, 10) appended turns in the order of their append.
C1_TrimFifo ==
  \A c \in Convs :
    /\ db[c] # Absent => Len(FromRow(db[c]).recentInteractions) <= MaxEntries
    /\ kv[c] # Absent => Len(Parse(kv[c]).recentInteractions) <= MaxEntries
    /\ Undisturbed(c) =>
         IF appended[c] = << >> THEN db[c] = Absent
         ELSE /\ db[c] # Absent
              /\ EntryIds(FromRow(db[c])) = MostRecent(appended[c])
    /\ (Undisturbed(c) /\ ~InFlight(c) /\ kv[c] # Absent) =>
         EntryIds(Parse(kv[c])) = MostRecent(appended[c])

\* an 11th turn was appended by a handle call and the oldest one evicted
C1_Witness ==
  \E i \in HandleCalls :
    /\ Settled(calls[i]) /\ calls[i].upd = "returned"
    /\ Undisturbed(calls[i].c)
    /\ Len(appended[calls[i].c]) = MaxEntries + 1
    /\ EntryIds(FromRow(db[calls[i].c]))[MaxEntries] = calls[i].turn

\* C2: when two handle calls on one conversation both complete successfully
\* (and no external call rejected), both turns are in the durable row.
C2_NoLostUpdate ==
  \A i, j \in HandleCalls :
    ( /\ i # j
      /\ calls[i].c = calls[j].c
      /\ Settled(calls[i]) /\ Settled(calls[j])
      /\ calls[i].upd = "returned" /\ calls[j].upd = "returned"
      /\ faults = 0
      /\ \A k \in Calls : calls[k].op # "clearConversationMemory" )
    => /\ db[calls[i].c] # Absent
       /\ HoldsTurn(FromRow(db[calls[i].c]), calls[i].turn)
       /\ HoldsTurn(FromRow(db[calls[i].c]), calls[j].turn)

\* C3: a handle call whose durable write failed returns succeeded = false with
\* agentUsed = "orchestrator", whatever became of its cache write.
C3_DurableFailureReported ==
  \A i \in HandleCalls :
    (calls[i].pc = "done" /\ calls[i].dbw = "fail")
    => /\ calls[i].resp.success = FALSE
       /\ calls[i].resp.agentUsed = "orchestrator"

\* the durable write failed and the cache write of the same append succeeded
C3_Witness ==
  \E i \in HandleCalls :
    /\ calls[i].pc = "done" /\ calls[i].dbw = "fail" /\ calls[i].kvw = "ok"
    /\ calls[i].resp.agentUsed = "orchestrator"

\* C4: whenever the cache holds an entry for a conversation (no call on it in
\* flight), the entry equals the conversation's durable row.
C4_CacheEqualsDurable ==
  \A c \in Convs :
    (~InFlight(c) /\ ~overlap[c] /\ kv[c] # Absent)
    => /\ db[c] # Absent
       /\ Parse(kv[c]) = FromRow(db[c])

\* C5: the get that follows an append whose durable write succeeded and whose
\* cache write failed returns the durable row's memory, including the new turn.
C5_SelfHealOnNextGet ==
  \A j \in GetCalls :
    ( /\ calls[j].pc = "done" /\ calls[j].gfault = None
      /\ ~overlap[calls[j].c]
      /\ calls[j].prev.kind = "call"
      /\ calls[calls[j].prev.call].op = "handleProcess"
      /\ calls[calls[j].prev.call].dbw = "ok"
      /\ calls[calls[j].prev.call].kvw = "fail" )
    => /\ calls[j].result # Absent
       /\ HoldsTurn(calls[j].result, calls[calls[j].prev.call].turn)

\* C6: an append whose durable write succeeded and whose cache write failed
\* returns normally, and the durable row holds the new turn.
C6_CacheFailureNotFatalInAppend ==
  \A i \in HandleCalls :
    ( /\ Settled(calls[i]) /\ ~overlap[calls[i].c]
      /\ calls[i].kvw = "fail" /\ calls[i].dbw = "ok" )
    => /\ calls[i].upd = "returned"
       /\ db[calls[i].c] # Absent
       /\ HoldsTurn(FromRow(db[calls[i].c]), calls[i].turn)

\* C7: a get whose cache read or cache repopulation failed, on a conversation
\* with a durable row, returns the memory of that row.
C7_CacheFailureNotFatalInGet ==
  \A i \in GetCalls :
    ( /\ calls[i].pc = "done" /\ calls[i].gfault \in {"kvGet", "kvPut"}
      /\ ~overlap[calls[i].c]
      /\ last[calls[i].c] = [kind |-> "call", call |-> i] /\ ~InFlight(calls[i].c)
      /\ db[calls[i].c] # Absent )
    => calls[i].result = FromRow(db[calls[i].c])

\* C8: for any fault handle catches, it returns succeeded = false, the fixed
\* apology, agentUsed = "orchestrator", executionTime = 0 and a metadata field
\* carrying the fault's description.
C8_FaultBecomesResponse ==
  \A i \in HandleCalls :
    (calls[i].pc = "done" /\ calls[i].caught # None)
    => /\ calls[i].resp.success = FALSE
       /\ calls[i].resp.content = OrchestratorApology
       /\ calls[i].resp.agentUsed = "orchestrator"
       /\ calls[i].resp.executionTime = 0
       /\ "metadata" \in DOMAIN calls[i].resp
       /\ "error" \in DOMAIN calls[i].resp.metadata
       /\ calls[i].resp.metadata.error = calls[i].caught

Apologies ==
  {AgentApology("reasoning"), AgentApology("research"), AgentApology("task"),
   OrchestratorApology}

\* C9: in every failed response the fault description appears only in
\* metadata.error, and the content is a fixed apology.
C9_FaultOnlyInMetadataError ==
  \A i \in HandleCalls :
    (calls[i].pc = "done" /\ calls[i].resp.success = FALSE)
    => /\ calls[i].resp.content \in Apologies
       /\ "error" \notin DOMAIN calls[i].resp
       /\ "metadata" \in DOMAIN calls[i].resp
       /\ "error" \in DOMAIN calls[i].resp.metadata

\* C10: on an undisturbed conversation, the get that follows the expiry of the
\* cache entry reads the durable row, returns the memory the entry held and
\* repopulates the cache; the get that follows it is served from the cache
\* with the same memory.
C10_GetAfterEviction ==
  \A j \in GetCalls :
    (calls[j].pc = "done" /\ Undisturbed(calls[j].c))
    => /\ calls[j].prev.kind = "evict"
          => /\ calls[j].path = "db"
             /\ calls[j].result = calls[j].prev.val
             /\ (last[calls[j].c] = [kind |-> "call", call |-> j] /\ ~InFlight(calls[j].c))
                  => kv[calls[j].c] = Stringify(calls[j].result)
       /\ ( /\ calls[j].prev.kind = "call"
            /\ calls[calls[j].prev.call].op = "getConversationMemory"
            /\ calls[calls[j].prev.call].path = "db" )
          => /\ calls[j].path = "hit"
             /\ calls[j].result = calls[calls[j].prev.call].result

\* an expiry, a get that went to the durable store, and a second get
C10_Witness ==
  \E i, j \in GetCalls :
    /\ calls[j].pc = "done" /\ Undisturbed(calls[j].c)
    /\ calls[j].prev = [kind |-> "call", call |-> i]
    /\ calls[i].prev.kind = "evict" /\ calls[i].path = "db"
    /\ calls[j].path = "hit" /\ calls[j].result # Absent

ClearCalls == {i \in Calls : calls[i].op = "clearConversationMemory"}

\* C11: a clear on a conversation whose stores answer returns without a fault,
\* whether or not the conversation exists; when it has returned, neither the
\* cache nor the durable store holds the conversation, and the get that follows
\* returns absent.
C11_ClearTotalIdempotent ==
  /\ \A i \in ClearCalls :
       (Settled(calls[i]) /\ Undisturbed(calls[i].c))
       => /\ calls[i].upd = "returned"
          /\ (last[calls[i].c] = [kind |-> "call", call |-> i] /\ ~InFlight(calls[i].c))
               => (kv[calls[i].c] = Absent /\ db[calls[i].c] = Absent)
  /\ \A j \in GetCalls :
       ( /\ calls[j].pc = "done" /\ Undisturbed(calls[j].c)
         /\ calls[j].prev.kind = "call"
         /\ calls[j].prev.call \in ClearCalls )
       => calls[j].result = Absent

\* a clear has returned and the get that followed it found nothing
C11_Witness ==
  \E i \in ClearCalls, j \in GetCalls :
    /\ calls[i].upd = "returned" /\ Undisturbed(calls[i].c)
    /\ calls[j].pc = "done" /\ calls[j].prev = [kind |-> "call", call |-> i]
    /\ calls[j].path = "absent" /\ calls[j].result = Absent

SelectCalls == {i \in Calls : calls[i].op = "selectAgent"}

ResearchWords == {<<"s", "e", "a", "r", "c", "h">>, <<"f", "i", "n", "d">>, <<"r", "e", "s", "e", "a", "r", "c", "h">>}
TaskWords == {<<"d", "o">>, <<"e", "x", "e", "c", "u", "t", "e">>, <<"r", "u", "n">>}

HasWord(content, words) == \E w \in words : Includes(ToLower(content), w)

\* C12: selectAgent returns research when the kind is research or the
\* lower-cased content contains a research keyword; otherwise task when the kind
\* is task or the content contains a task keyword; otherwise reasoning; equal
\* (kind, content) give equal results.
C12_SelectOrder ==
  /\ \A i \in SelectCalls :
       LET r == calls[i].req
           research == r.type = "research" \/ HasWord(r.content, ResearchWords)
           task == r.type = "task" \/ HasWord(r.content, TaskWords)
       IN /\ research => calls[i].ret = "research"
          /\ (~research /\ task) => calls[i].ret = "task"
          /\ (~research /\ ~task) => calls[i].ret = "reasoning"
  /\ \A i, j \in SelectCalls : calls[i].req = calls[j].req => calls[i].ret = calls[j].ret

\* a chat request holding a research keyword and a task keyword went to research
C12_Witness ==
  \E i \in SelectCalls :
    /\ calls[i].req = [type |-> "chat", content |-> SearchExecuteText]
    /\ HasWord(calls[i].req.content, TaskWords)
    /\ calls[i].ret = "research"

\* the summary is non-empty exactly when at least 3 entries are held
SummaryMatchesLength(memory) ==
  (memory.summary # EmptySummary) <=> (Len(memory.recentInteractions) >= SummaryMin)

\* C13: in every stored aggregate (durable row or cache entry) the summary is
\* non-empty if and only if recentInteractions holds at least 3 entries.
C13_SummaryIffThree ==
  \A c \in Convs :
    /\ db[c] # Absent => SummaryMatchesLength(FromRow(db[c]))
    /\ kv[c] # Absent => SummaryMatchesLength(Parse(kv[c]))

\* an append brought a conversation from 2 to 3 entries and wrote its summary
C13_Witness ==
  \E i \in HandleCalls :
    /\ Settled(calls[i]) /\ calls[i].upd = "returned"
    /\ db[calls[i].c] # Absent
    /\ Len(FromRow(db[calls[i].c]).recentInteractions) = SummaryMin
    /\ HoldsTurn(FromRow(db[calls[i].c]), calls[i].turn)
    /\ FromRow(db[calls[i].c]).summary # EmptySummary

PushCalls == {i \in Calls : calls[i].op = "updateMemory"}

\* the user inputs of the last min(5, n) of n entries, in order
LastInputs(entries) ==
  LET n == Len(entries)
      m == IF n < SummaryWindow THEN n ELSE SummaryWindow
  IN [k \in 1..m |-> entries[n - m + k].userInput]

\* the inputs joined by single spaces, cut after 200 characters
Topics(entries) ==
  LET joined == Join(LastInputs(entries))
      m == IF Len(joined) < SummaryMaxLen THEN Len(joined) ELSE SummaryMaxLen
  IN [k \in 1..m |-> joined[k]]

RowEntries(c, id) ==
  IF db[c] = Absent THEN {}
  ELSE {k \in 1..Len(FromRow(db[c]).recentInteractions) :
          FromRow(db[c]).recentInteractions[k].id = id}

\* the call is the last one completed on its conversation, nothing is in flight
\* there and no two calls on it overlapped
LastAlone(i) ==
  /\ ~overlap[calls[i].c]
  /\ ~InFlight(calls[i].c)
  /\ last[calls[i].c] = [kind |-> "call", call |-> i]

\* the durable write of call i lands in this step
D1WriteLands(i) ==
  /\ calls[i].op = "handleProcess"
  /\ calls[i].dbw = "pending" /\ calls'[i].dbw = "ok"

\* the entries of the row the step leaves for the conversation of call i
WrittenEntries(i) == FromRow(db'[calls[i].c]).recentInteractions

\* a handle call whose strategy failed has completed its append, and its row
\* (no other call having overlapped) holds the failed turn
FailedTurnInRow ==
  \A i \in HandleCalls :
    ( /\ calls[i].pc = "done" /\ calls[i].caught = None
      /\ calls[i].resp.success = FALSE )
    => /\ calls[i].upd = "returned" /\ calls[i].dbw = "ok"
       /\ LastAlone(i)
          => \E k \in RowEntries(calls[i].c, calls[i].turn) :
               LET e == FromRow(db[calls[i].c]).recentInteractions[k]
               IN /\ e.userInput = calls[i].req.content
                  /\ e.agentResponse = AgentApology(selectAgent(calls[i].req))
                  /\ e.agentUsed = selectAgent(calls[i].req)
                  /\ e.agentUsed = calls[i].resp.agentUsed

\* the durable write of a call whose strategy failed writes the failed turn
FailedTurnWritten ==
  \A i \in Calls :
    ( /\ D1WriteLands(i) /\ calls[i].caught = None
      /\ calls[i].resp.success = FALSE )
    => \E k \in 1..Len(WrittenEntries(i)) :
         /\ WrittenEntries(i)[k].id = calls[i].turn
         /\ WrittenEntries(i)[k].userInput = calls[i].req.content
         /\ WrittenEntries(i)[k].agentResponse = AgentApology(selectAgent(calls[i].req))
         /\ WrittenEntries(i)[k].agentUsed = selectAgent(calls[i].req)

\* C15: a handle call whose strategy returned succeeded = false still runs its
\* append to the end, and the durable write of that append stores the turn:
\* the user input, the strategy's apology as agentResponse and the strategy's
\* own name as agentUsed.
C15_FailedTurnRecorded == []FailedTurnInRow /\ [][FailedTurnWritten]_vars

\* the research strategy failed and its turn is in the durable row
C15_Witness ==
  \E i \in HandleCalls :
    /\ calls[i].pc = "done" /\ calls[i].resp.success = FALSE
    /\ calls[i].resp.agentUsed = "research"
    /\ LastAlone(i)
    /\ RowEntries(calls[i].c, calls[i].turn) # {}

\* a handle call that returned its strategy's response answered with the
\* selected strategy's name and (no other call having overlapped) its row holds
\* exactly one entry with the call's id, the newest, with the turn's fields
OneEntryInRow ==
  \A i \in HandleCalls :
    (Settled(calls[i]) /\ calls[i].upd = "returned")
    => /\ calls[i].resp.agentUsed = selectAgent(calls[i].req)
       /\ calls[i].dbw = "ok"
       /\ LastAlone(i)
          => /\ db[calls[i].c] # Absent
             /\ RowEntries(calls[i].c, calls[i].turn)
                  = {Len(FromRow(db[calls[i].c]).recentInteractions)}
             /\ \A k \in RowEntries(calls[i].c, calls[i].turn) :
                  LET e == FromRow(db[calls[i].c]).recentInteractions[k]
                  IN /\ e.userInput = calls[i].req.content
                     /\ e.agentResponse = calls[i].resp.content
                     /\ e.agentUsed = selectAgent(calls[i].req)
                     /\ e.conversationId = calls[i].c

\* the durable write of a handle call stores exactly one entry with the call's
\* id, as the newest entry, with the turn's fields
OneEntryWritten ==
  \A i \in Calls :
    (D1WriteLands(i) /\ calls[i].caught = None)
    => LET n == Len(WrittenEntries(i))
       IN /\ {k \in 1..n : WrittenEntries(i)[k].id = calls[i].turn} = {n}
          /\ WrittenEntries(i)[n].userInput = calls[i].req.content
          /\ WrittenEntries(i)[n].agentResponse = calls[i].resp.content
          /\ WrittenEntries(i)[n].agentUsed = selectAgent(calls[i].req)
          /\ WrittenEntries(i)[n].conversationId = calls[i].c

\* C16: every handle call that returns its strategy's response has written
\* exactly one entry with a new id to the durable row of the request's
\* conversation, as its newest entry: userInput is the request content,
\* agentResponse the content returned and agentUsed the strategy selectAgent
\* chose, which is also the agentUsed returned.
C16_OneEntryPerHandle == []OneEntryInRow /\ [][OneEntryWritten]_vars

\* a request routed to research on an empty conversation left exactly one entry
C16_Witness ==
  \E i \in HandleCalls :
    /\ Settled(calls[i]) /\ calls[i].upd = "returned" /\ LastAlone(i)
    /\ calls[i].prev.kind = "none"
    /\ calls[i].resp.success /\ calls[i].resp.agentUsed = "research"
    /\ db[calls[i].c] # Absent
    /\ Len(FromRow(db[calls[i].c]).recentInteractions) = 1
    /\ FromRow(db[calls[i].c]).recentInteractions[1].agentUsed = "research"

ProcessCalls == {i \in Calls : calls[i].op = "process"}

\* one of the LLM calls of the invocation rejected
LlmFaulted(i) == \E k \in 1..Len(calls[i].req.llm) : calls[i].req.llm[k].fault

\* C17: process of the three strategies always returns a response; when one
\* of its LLM calls rejected, the response has succeeded = false, the strategy's
\* fixed apology as content and the strategy's own name as agentUsed.
C17_StrategiesNeverThrow ==
  \A i \in ProcessCalls :
    /\ "success" \in DOMAIN calls[i].resp
    /\ LlmFaulted(i)
       => /\ calls[i].resp.success = FALSE
          /\ calls[i].resp.content = AgentApology(calls[i].req.agent)
          /\ calls[i].resp.agentUsed = calls[i].req.agent

\* the research strategy's second LLM call rejected and process returned a
\* failed response
C17_Witness ==
  \E i \in ProcessCalls :
    /\ calls[i].req.agent = "research"
    /\ ~calls[i].req.llm[1].fault /\ calls[i].req.llm[2].fault
    /\ "success" \in DOMAIN calls[i].resp
    /\ calls[i].resp.success = FALSE /\ calls[i].resp.agentUsed = "research"

\* the parsed classification is an object with the four fields of an analysis
Usable(json) ==
  /\ json.kind = "object"
  /\ {"type", "complexity", "steps", "requirements"} \subseteq DOMAIN json.fields

\* C18: in the task strategy, when the classification completion yields no
\* usable analysis (it does not parse, or parses to something that is not an
\* object with the expected fields) and the execution call succeeds, process
\* returns succeeded = true with the metadata of the default analysis.
C18_TaskFallbackWhenUnusable ==
  \A i \in ProcessCalls :
    ( /\ calls[i].req.agent = "task"
      /\ ~LlmFaulted(i)
      /\ ~Usable(calls[i].req.llm[1].json) )
    => /\ calls[i].resp.success
       /\ calls[i].resp.metadata =
            [taskType |-> "general", complexity |-> "medium",
             stepsExecuted |-> DefaultSteps]

\* C19: followUpActions, when present in a strategy's response, holds at most
\* 3 elements and no two of them are equal.
C19_FollowUpsCappedDistinct ==
  \A i \in ProcessCalls :
    "followUpActions" \in DOMAIN calls[i].resp
    => LET f == calls[i].resp.followUpActions
       IN /\ Len(f) <= MaxFollowUps
          /\ \A a, b \in 1..Len(f) : a # b => f[a] # f[b]

\* C20: the lastUpdated held by the durable row of a conversation never
\* decreases from one write of the row to the next.
C20_LastUpdatedMonotone ==
  [][\A c \in Convs :
       (db[c] # Absent /\ db'[c] # Absent)
       => db'[c].last_updated >= db[c].last_updated]_vars

\* an AgentResponse with its four required fields (llm-service.ts 273-280)
WellFormed(r) ==
  /\ r # Absent
  /\ {"success", "content", "agentUsed", "executionTime"} \subseteq DOMAIN r
  /\ r.success \in BOOLEAN
  /\ r.content \in Apologies \cup {Completion}
  /\ r.agentUsed \in {"reasoning", "research", "task", "orchestrator"}
  /\ r.executionTime \in Nat

\* C21: every handle call that was issued eventually ends, and ends with a
\* well-formed AgentResponse, given that every external call it awaits
\* eventually returns or faults; no handle call ends without such a response.
C21_HandleTerminates ==
  /\ \A i \in Calls :
       [](calls[i].op = "handleProcess"
          => <>(calls[i].pc = "done" /\ WellFormed(calls[i].resp)))
  /\ [](\A i \in HandleCalls : calls[i].pc = "done" => WellFormed(calls[i].resp))

\* a handle call ended in the dispatcher's catch after its durable write rejected
C21_Witness ==
  \E i \in HandleCalls :
    /\ calls[i].pc = "done" /\ calls[i].caught = D1Fault
    /\ WellFormed(calls[i].resp) /\ ~calls[i].resp.success

\* the LLM steps of a strategy, in the order of the outcomes in req.llm
LlmStepsOf(agent) ==
  CASE agent = "research" -> <<"extraction", "synthesis">>
    [] agent = "task" -> <<"classification", "execution">>
    [] OTHER -> <<"reasoning">>

\* C22: within one strategy invocation every LLM step is started at most once;
\* when an LLM call faults it is the last external call the invocation starts
\* (no search, synthesis or execution follows, no second attempt) and the
\* invocation answers succeeded = false.
C22_NoRetry ==
  \A i \in ProcessCalls :
    LET steps == calls[i].path
        names == LlmStepsOf(calls[i].req.agent)
        llm == calls[i].req.llm
    IN /\ \A n \in 1..Len(names) :
            Cardinality({k \in 1..Len(steps) : steps[k] = LlmCall(names[n])}) <= 1
       /\ \A n \in 1..Len(names) :
            (llm[n].fault /\ \A m \in 1..(n - 1) : ~llm[m].fault)
            => /\ steps # << >>
               /\ steps[Len(steps)] = LlmCall(names[n])
               /\ ~calls[i].resp.success

\* a research whose extraction went through, whose searches ran and whose
\* synthesis faulted: the synthesis was started once and the research failed
C22_Witness ==
  \E i \in ProcessCalls :
    /\ calls[i].req.agent = "research"
    /\ ~calls[i].req.llm[1].fault /\ calls[i].req.llm[2].fault
    /\ Len(calls[i].path) > 2
    /\ calls[i].path[Len(calls[i].path)] = LlmCall("synthesis")
    /\ ~calls[i].resp.success

\* the call that takes the step
Acts(i) == calls'[i] # calls[i]

\* C23: a step of a get, an append (handle) or a clear on one conversation
\* leaves the cache entry and the durable row of every other conversation as
\* they were, whatever the calls on the other conversation are doing.
C23_ConversationsIndependent ==
  [][\A i \in Calls :
       Acts(i) => \A b \in Convs \ {calls'[i].c} : kv'[b] = kv[b] /\ db'[b] = db[b]]_vars

\* an append on one conversation and a clear on the other have both completed,
\* the clear having arrived before the append stamped its aggregate; the cleared
\* conversation is gone, the other holds its turn
C23_Witness ==
  \E i \in HandleCalls, j \in ClearCalls :
    /\ calls[i].c # calls[j].c
    /\ Settled(calls[i]) /\ Settled(calls[j])
    /\ calls[i].upd = "returned" /\ calls[j].upd = "returned"
    /\ j > i
    /\ db[calls[j].c] = Absent /\ kv[calls[j].c] = Absent
    /\ db[calls[i].c] # Absent
    /\ calls[j].start <= db[calls[i].c].last_updated
    /\ RowEntries(calls[i].c, calls[i].turn) # {}

\* the entries the durable row and the cache entry of a conversation hold
DurableEntries(row) == IF row = Absent THEN << >> ELSE Parse(row.recent_interactions)
CacheEntries(text) == IF text = Absent THEN << >> ELSE Parse(text).recentInteractions

IdsOf(entries) == {entries[k].id : k \in 1..Len(entries)}

\* the fields of an entry that a later append must leave alone
Written(e) ==
  [id |-> e.id, userInput |-> e.userInput, agentResponse |-> e.agentResponse,
   agentUsed |-> e.agentUsed, timestamp |-> e.timestamp]

\* the entries of es whose id is in ids, in the order of es, by those fields
Among(es, ids) ==
  LET common == SelectSeq(es, LAMBDA e : e.id \in ids)
  IN [k \in 1..Len(common) |-> Written(common[k])]

\* every entry of old that new still holds has the same fields in new, and the
\* entries both hold stand in the same order
Retained(old, new) ==
  old = new \/ Among(old, IdsOf(new)) = Among(new, IdsOf(old))

PairwiseDistinct(entries) == Cardinality(IdsOf(entries)) = Len(entries)

DistinctIds ==
  \A c \in Convs :
    PairwiseDistinct(DurableEntries(db[c])) /\ PairwiseDistinct(CacheEntries(kv[c]))

EntriesKept ==
  \A c \in Convs :
    /\ Retained(DurableEntries(db[c]), DurableEntries(db'[c]))
    /\ Retained(CacheEntries(kv[c]), CacheEntries(kv'[c]))

\* C24: whenever the durable row or the cache entry of a conversation is written,
\* every entry held before and after the write keeps its id, userInput,
\* agentResponse, agentUsed and timestamp, the entries held before and after
\* keep their relative order, and the ids held are pairwise distinct.
C24_EntriesImmutable == []DistinctIds /\ [][EntriesKept]_vars

\* the eleventh append has evicted the oldest entry: the row holds the nine
\* younger entries written before the run, in their order, and the new turn
C24_Witness ==
  \E i \in HandleCalls :
    LET es == DurableEntries(db[calls[i].c])
    IN /\ Settled(calls[i]) /\ calls[i].upd = "returned"
       /\ Len(es) = MaxEntries
       /\ es[MaxEntries].id = calls[i].turn
       /\ \A k \in 1..(MaxEntries - 1) : es[k].id = PreId(calls[i].c, k + 1)

\* the queries of the first provider's fetches, in the order they were started
Searched(steps) ==
  LET fetched == SelectSeq(steps, LAMBDA st : st.kind = "search" /\ st.provider = "primary")
  IN [k \in 1..Len(fetched) |-> fetched[k].query]

\* C25: a research whose extraction completed searches once for each non-blank
\* line of the completion, in their order, reports those lines as its queries,
\* and the number of queries is between 1 and 3.
C25_OneToThreeQueries ==
  \A i \in ProcessCalls :
    (calls[i].req.agent = "research" /\ ~calls[i].req.llm[1].fault)
    => LET queries == NonBlank(Split(calls[i].req.llm[1].content, "\n"))
       IN /\ Searched(calls[i].path) = queries
          /\ calls[i].resp.success => calls[i].resp.metadata.searchQueries = queries
          /\ Len(queries) >= 1
          /\ Len(queries) <= MaxQueries

SearchCalls == {i \in Calls : calls[i].op = "search"}

ResultFields == {"title", "url", "snippet", "source", "relevanceScore"}

\* C26: search resolves for every query and every combination of outcomes of
\* the two providers, with a list of results; when the first provider gave no
\* result and the second failed, the list is exactly the one placeholder.
C26_SearchNeverThrows ==
  \A i \in SearchCalls :
    /\ ~calls[i].resp.rejected
    /\ \A k \in 1..Len(calls[i].resp.value) :
         DOMAIN calls[i].resp.value[k] = ResultFields
    /\ (calls[i].req.primary # "abstract" /\ FallbackThrows(calls[i].req.fallback))
       => calls[i].resp.value = <<Placeholder(calls[i].req.query)>>

\* the fetch of the first provider rejected, the second provider answered with a
\* status that is not ok, and search returned the placeholder
C26_Witness ==
  \E i \in SearchCalls :
    /\ calls[i].req.primary = "fault" /\ calls[i].req.fallback = "status"
    /\ ~calls[i].resp.rejected
    /\ Len(calls[i].resp.value) = 1
    /\ calls[i].resp.value[1].source = "System"

ChatCalls == {i \in Calls : calls[i].op = "handleChat"}

\* the body of a chat request lacks message or conversationId
LacksFields(body) ==
  IF body.kind # "object" THEN TRUE
  ELSE IF "message" \notin DOMAIN body.fields THEN TRUE
  ELSE IF body.fields.message = << >> THEN TRUE
  ELSE "conversationId" \notin DOMAIN body.fields

\* C27: a chat request whose body lacks message or conversationId is answered
\* 400 Bad Request, is never handed to the dispatcher, and its step reads and
\* writes no cache entry and no durable row.
C27_MissingFieldsRejected ==
  /\ [](\A i \in ChatCalls :
         LacksFields(calls[i].req)
         => /\ calls[i].resp.status = 400
            /\ calls[i].pc = "done" /\ calls[i].path = None)
  /\ [][\A i \in Calls :
          (calls[i].op = None /\ calls'[i].op = "handleChat")
          => kv' = kv /\ db' = db]_vars

\* C28: when the read inside an append faulted (cache read, durable read or
\* cache repopulation) and the conversation has a durable row with turns, the
\* durable write of that append does not leave a row holding the new turn alone.
C28_ReadFaultNotAbsent ==
  [][\A i \in Calls :
       ( /\ D1WriteLands(i) /\ calls[i].gfault # None
         /\ DurableEntries(db[calls[i].c]) # << >> )
       => IdsOf(DurableEntries(db'[calls[i].c])) # {calls[i].turn}]_vars

\* the cache write of call i lands in this step
KvWriteLands(i) ==
  /\ calls[i].op = "handleProcess"
  /\ calls[i].kvw = "pending" /\ calls'[i].kvw = "ok"

\* clear j has completed on the conversation of call i
ClearedBefore(i, j) ==
  /\ calls[j].op = "clearConversationMemory" /\ calls[j].c = calls[i].c
  /\ Settled(calls[j]) /\ calls[j].upd = "returned"

\* C29: once a clear of a conversation has completed, only a handle call that
\* was issued after that clear writes the conversation's durable row or cache
\* entry: a handle call already in flight when the clear was issued does not.
C29_NoResurrection ==
  [][\A i, j \in Calls :
       ((D1WriteLands(i) \/ KvWriteLands(i)) /\ ClearedBefore(i, j)) => j < i]_vars

\* the append of handle call i returns without a fault in this step
AppendReturns(i) ==
  /\ calls[i].op = "handleProcess"
  /\ calls[i].upd # "returned" /\ calls'[i].upd = "returned"

\* no cache entry has expired and no clear has been issued
OnlyAppends == expiries = 0 /\ \A j \in Calls : calls[j].op # "clearConversationMemory"

\* C30: when the append of a handle call returns without a fault (no cache
\* entry having expired and no clear having been issued meanwhile), the cache
\* entry and the durable row of the conversation both hold the turn it appended.
C30_BothHoldTurnAtReturn ==
  [][\A i \in Calls :
       (AppendReturns(i) /\ OnlyAppends)
       => /\ calls[i].turn \in IdsOf(CacheEntries(kv'[calls[i].c]))
          /\ calls[i].turn \in IdsOf(DurableEntries(db'[calls[i].c]))]_vars

\* the step of handleProcess a call is at: 1 load, 2 select and process,
\* 3 append, 4 responded
Stage(cl) ==
  CASE cl.pc = "idle" -> 0
    [] cl.pc = "agent" -> 2
    [] cl.pc = "writing" -> 3
    [] cl.pc = "done" -> 4
    [] OTHER -> IF cl.ret = "load" THEN 1 ELSE 3

\* one step of handle call i keeps the order of handleProcess
Ordered(i) ==
  LET old == calls[i]
      new == calls'[i]
  IN /\ Stage(new) \in {Stage(old), Stage(old) + 1}
        \/ (Stage(old) = 0 /\ Stage(new) = 4 /\ new.caught = JsonFault)
     /\ (Stage(old) = 2 /\ Stage(new) = 3)
        => /\ new.given = old.mem
           /\ \E llm \in {"ok", "fault"} :
                new.resp = processWithAgent(selectAgent(old.req), llm)
           /\ new.entry.agentResponse = new.resp.content
     /\ (Stage(old) \in {2, 3} /\ Stage(new) = 3)
        => new.mem = old.mem /\ new.given = new.mem
     /\ (Stage(old) = 3 /\ Stage(new) = 4)
        => /\ new.upd \in {"returned", "threw"}
           /\ new.upd = "returned" => new.kvw = "ok" /\ new.dbw = "ok"
           /\ new.upd = "threw" => "fail" \in {new.kvw, new.dbw}

\* what a handle call holds at each step
StageState(cl) ==
  /\ Stage(cl) \in {1, 2} => cl.resp = Absent /\ cl.entry = Absent /\ cl.turn = 0
  /\ Stage(cl) = 1 => cl.mem = Absent
  /\ (Stage(cl) = 3 /\ cl.turn # 0 /\ cl.given # Absent) => ~HoldsTurn(cl.given, cl.turn)
  /\ Stage(cl) = 4 => cl.resp # Absent

\* C31: the steps of a handle call follow one another in the order load,
\* select and process, append, respond; the strategy is handed the memory
\* the load returned, which never holds the turn of the call; the response is
\* returned only once updateMemory has settled, and when it settled without
\* a fault both writes have landed.
C31_StepsOrdered ==
  /\ [](\A i \in HandleCalls : StageState(calls[i]))
  /\ [][\A i \in Calls : calls'[i].op = "handleProcess" => Ordered(i)]_vars

\* two handle calls overlapped on a conversation: the second was handed the
\* memory its load returned although the cache has changed since, and a call
\* has responded after both of its writes landed
C31_Witness ==
  \E i, j \in HandleCalls :
    /\ i # j /\ calls[i].c = calls[j].c
    /\ Stage(calls[j]) = 3 /\ calls[j].turn # 0 /\ calls[j].given # Absent
    /\ kv[calls[j].c] # Absent /\ Parse(kv[calls[j].c]) # calls[j].given
    /\ calls[i].pc = "done" /\ calls[i].upd = "returned"

\* the aggregate is the fresh one with the turn of call i as its only entry
FirstTurnOnly(memory, i) ==
  /\ Len(memory.recentInteractions) = 1
  /\ memory.recentInteractions[1].id = calls[i].turn
  /\ memory.summary = EmptySummary
  /\ memory.context = "{}"
  /\ memory.userId = "unknown"

\* the writes of handle call i that land in this step create the conversation
\* when its read found it absent, and keep the user and the context of the
\* conversation when the store held it
CreatedOrKept(i) ==
  LET c == calls[i].c IN
  /\ (D1WriteLands(i) /\ calls[i].path = "absent") => FirstTurnOnly(FromRow(db'[c]), i)
  /\ (KvWriteLands(i) /\ calls[i].path = "absent") => FirstTurnOnly(Parse(kv'[c]), i)
  /\ (D1WriteLands(i) /\ db[c] # Absent)
     => /\ FromRow(db'[c]).userId = FromRow(db[c]).userId
        /\ FromRow(db'[c]).context = FromRow(db[c]).context
  /\ (KvWriteLands(i) /\ kv[c] # Absent)
     => /\ Parse(kv'[c]).userId = Parse(kv[c]).userId
        /\ Parse(kv'[c]).context = Parse(kv[c]).context

\* C32: an append whose read found the conversation absent writes a fresh
\* aggregate (empty summary, empty context, user "unknown") holding the new
\* turn as its only entry; an append to a conversation a store holds leaves
\* the user and the context of that store's aggregate as they were.
C32_CreatedOnFirstAppend == [][\A i \in Calls : CreatedOrKept(i)]_vars

\* a first append created the conversation and a later one extended it
C32_Witness ==
  \E i, j \in HandleCalls :
    /\ i # j /\ calls[i].c = calls[j].c
    /\ calls[i].path = "absent" /\ calls[i].upd = "returned"
    /\ calls[j].path = "hit" /\ calls[j].upd = "returned"
    /\ db[calls[i].c] # Absent
    /\ EntryIds(FromRow(db[calls[i].c])) = <<calls[i].turn, calls[j].turn>>
    /\ FromRow(db[calls[i].c]).userId = "unknown"

\* call i is inside getConversationMemory and takes this step
GetSteps(i) ==
  /\ calls[i].pc \in {"kvGet", "dbFirst", "kvPut"}
  /\ calls'[i] # calls[i]

\* what a step of getConversationMemory in call i does to the two stores
GetEffect(i) ==
  LET cl == calls[i] IN
  /\ db' = db
  /\ cl.pc \in {"kvGet", "dbFirst"} => kv' = kv
  /\ (cl.pc = "dbFirst" /\ calls'[i].pc = "kvPut") => calls'[i].loaded = FromRow(db[cl.c])
  /\ cl.pc = "kvPut"
     => \/ kv' = kv /\ calls'[i].gfault = "kvPut"
        \/ kv' = [kv EXCEPT ![cl.c] = Stringify(cl.loaded)] /\ calls'[i].gfault = None

\* C33: no step of get changes the durable store; the read of the cache and
\* the read of the row change neither store (a cache hit so changes nothing);
\* the one write of get, after a cache miss and a row found, sets the cache
\* entry of the requested conversation to the aggregate of the row it read
\* and leaves every other cache entry alone.
C33_GetFrame == [][\A i \in Calls : GetSteps(i) => GetEffect(i)]_vars

\* one get was served from the row and repopulated the cache, another was
\* served from the cache
C33_Witness ==
  \E i, j \in GetCalls :
    /\ calls[i].pc = "done" /\ calls[i].path = "db"
    /\ calls[j].pc = "done" /\ calls[j].path = "hit"
    /\ calls[i].c = calls[j].c
    /\ kv[calls[i].c] # Absent /\ db[calls[i].c] # Absent
    /\ Parse(kv[calls[i].c]) = FromRow(db[calls[i].c])
    /\ Len(Parse(kv[calls[i].c]).recentInteractions) > 0

\* the sentence matches at least one of the three patterns
MatchesPattern(sentence) ==
  \E j \in 1..Len(ActionPatterns) : Test(sentence, 0, ActionPatterns[j]).matched

\* the sentences of the output that match a pattern, trimmed, in order
MatchingSentences(content) ==
  LET found == SelectSeq(NonBlank(Split(content, ".")), MatchesPattern)
  IN [k \in 1..Len(found) |-> TrimText(found[k])]

\* the task strategy succeeded in call i
TaskSucceeded(i) ==
  /\ calls[i].op = "process" /\ calls[i].req.agent = "task"
  /\ calls[i].resp.success

\* C34: the follow-up actions of the Task strategy are the first min(3, k)
\* distinct sentences of the output that match at least one of the three
\* patterns, k being the number of distinct matching sentences.
C34_DistinctBeforeCap ==
  \A i \in Calls :
    TaskSucceeded(i)
    => calls[i].resp.followUpActions
         = SliceFirst(Distinct(MatchingSentences(calls[i].req.llm[2].content)),
                      MaxFollowUps)

\* the calls a user other than the owner of c1 issued
OthersCalls == {i \in Calls : calls[i].user \notin {None, Owner}}

\* C35: a GET of a conversation by a user who did not create it returns no
\* memory, and a chat of such a user on it hands no stored memory to the
\* strategy and writes nothing to the stores of the conversation.
C35_OwnerOnly ==
  \A i \in OthersCalls :
    /\ (calls[i].op = "getConversationMemory" /\ calls[i].pc = "done")
       => calls[i].result = Absent
    /\ calls[i].op = "handleProcess"
       => calls[i].given = Absent /\ calls[i].kvw # "ok" /\ calls[i].dbw # "ok"

\* delete call i of a listed conversation is over and no other call has
\* addressed the conversation
DeleteAlone(i) ==
  /\ calls[i].op = "clearConversationMemory" /\ calls[i].user # None
  /\ Settled(calls[i]) /\ calls[i].listed
  /\ \A j \in Calls \ {i} : calls[j].c # calls[i].c

\* C36: after a delete that reported failure the conversation is still in the
\* list of the user and both stores hold its memory; after a delete that
\* reported success it is in the list no longer and both stores hold nothing
\* for it.
C36_DeleteAllOrNothing ==
  \A i \in Calls :
    DeleteAlone(i)
    => LET c == calls[i].c IN
       /\ calls[i].upd = "threw"
          => c \in active[calls[i].user] /\ kv[c] # Absent /\ db[c] # Absent
       /\ calls[i].upd = "returned"
          => c \notin active[calls[i].user] /\ kv[c] = Absent /\ db[c] = Absent
====
